---- MODULE Spec2Model ----
(***************************************************************************)
(* Payroll ledger (cutsea110/payment): the in-memory store MockDb, the     *)
(* domain calculations of payroll-impl, the transaction templates of       *)
(* abstract-tx, the concrete transactions of tx-impl and the driver loop   *)
(* of tx-app.                                                              *)
(*                                                                         *)
(* Representation.                                                         *)
(*  - A NaiveDate is the number of days since 2024-01-01 (a Monday).       *)
(*  - f32 amounts are integers; the factor 1.5 of overtime is (x * 3) / 2  *)
(*    and a commission rate is a percentage, so that the sums the model    *)
(*    computes are the exact values of the f32 expressions on its inputs.  *)
(*  - An enum value is a record with a tag and the fields of its variant.  *)
(*  - A Result is [tag |-> "Ok", val |-> v] or [tag |-> "Err", err |-> e]  *)
(*    (a UsecaseError also carries the DaoError it wraps as cause); a      *)
(*    panic!() is the outcome [tag |-> "Panic"].                           *)
(*  - Rc<RefCell<..>> sharing: the clone fetch returns shares its four     *)
(*    capability objects with the stored employee, so a mutation made in   *)
(*    place through the clone is made to the stored record too.            *)
(***************************************************************************)
EXTENDS Integers, Sequences, FiniteSets, TLC

VARIABLES
    employees,      \* MockDb.employees: emp_id -> Employee
    union_members,  \* MockDb.union_members: member_id -> emp_id
    paychecks,      \* MockDb.paychecks: emp_id -> sequence of Paycheck
    last,           \* the transaction executed last: command, result, the
                    \* calls it made, and the store it started from
    script,         \* the transactions the source was built with
    txs,            \* TextParserTransactionSource.txs: the queue of the driver
    executed,       \* the commands the driver has executed, in order
    run_result,     \* what TransactionApplication::run returned ("none" before)
    focus           \* the family of inputs this behaviour draws from

vars == <<employees, union_members, paychecks, last, script, txs, executed,
          run_result, focus>>

-----------------------------------------------------------------------------
(* Bounds of the model.                                                    *)

\* records (timecards + sales receipts + service charges) held by the store
MaxRecords == 1
\* paychecks held by the store
MaxPaychecks == 2
\* the last day number a schedule is asked about (2027-04-15)
MaxDay == 1200
\* records in a classification or an affiliation handed to a calculation
MaxCards == 2
\* records held by the store of a behaviour that only posts records
MaxPosted == 3
\* length of a script handed to the driver
MaxScript == 3

-----------------------------------------------------------------------------
(* chrono::NaiveDate on day numbers.                                       *)

IsLeapYear(y) == (y % 4 = 0 /\ y % 100 # 0) \/ y % 400 = 0

DaysInMonth(y, m) ==
    IF m = 2 THEN (IF IsLeapYear(y) THEN 29 ELSE 28)
    ELSE IF m \in {4, 6, 9, 11} THEN 30 ELSE 31

DaysInYear(y) == IF IsLeapYear(y) THEN 366 ELSE 365

RECURSIVE YmdFrom(_, _, _)
\* the calendar date n days after the first day of month m of year y (n >= 0)
YmdFrom(y, m, n) ==
    IF n < DaysInMonth(y, m) THEN [year |-> y, month |-> m, day |-> n + 1]
    ELSE IF m = 12 THEN YmdFrom(y + 1, 1, n - 31)
    ELSE YmdFrom(y, m + 1, n - DaysInMonth(y, m))

\* day number 0 is 2024-01-01
Ymd(d) == YmdFrom(2024, 1, d)

month(d) == Ymd(d).month

day(d) == Ymd(d).day

year(d) == Ymd(d).year

\* Weekday, counted from Monday = 0; the epoch is a Monday
weekday(d) == d % 7

Fri == 4

RECURSIVE OrdinalFrom(_, _)
\* the 0-based day of its year of day number d, counting years from y
OrdinalFrom(y, d) ==
    IF d < DaysInYear(y) THEN d ELSE OrdinalFrom(y + 1, d - DaysInYear(y))

\* the week of the year counted in sevens from the first of January
iso_week_of_ordinal(d) == (OrdinalFrom(2024, d) \div 7) + 1

\* date.iso_week().week(): the week of the year that holds the week's Thursday
iso_week(d) == (OrdinalFrom(2024, d - weekday(d) + 3) \div 7) + 1

\* date.with_day(1)
with_day_1(d) == d - (day(d) - 1)

\* RangeInclusive<NaiveDate>
Range(s, e) == [start |-> s, end |-> e]

contains(period, d) == period.start <= d /\ d <= period.end

-----------------------------------------------------------------------------
(* payroll-impl: schedule, classification, affiliation, method.            *)

Monthly == "Monthly"

Weekly == "Weekly"

Biweekly == "Biweekly"

\* is_pay_date whose Monthly arm takes every day from the 28th on
is_pay_date_from_28(schedule, date) ==
    CASE schedule = Monthly -> day(date) >= 28
      [] schedule = Weekly -> weekday(date) = Fri
      [] schedule = Biweekly -> weekday(date) = Fri /\ iso_week(date) % 2 = 0

is_pay_date(schedule, date) ==
    CASE schedule = Monthly -> month(date) # month(date + 1)
      [] schedule = Weekly -> weekday(date) = Fri
      [] schedule = Biweekly -> weekday(date) = Fri /\ iso_week(date) % 2 = 0

\* calculate_period whose Biweekly arm goes back 14 days
calculate_period_15_days(schedule, payday) ==
    CASE schedule = Monthly -> Range(with_day_1(payday), payday)
      [] schedule = Weekly -> Range(payday - 6, payday)
      [] schedule = Biweekly -> Range(payday - 14, payday)

\* calculate_period whose Weekly arm goes back 5 days
calculate_period_6_days(schedule, payday) ==
    CASE schedule = Monthly -> Range(with_day_1(payday), payday)
      [] schedule = Weekly -> Range(payday - 5, payday)
      [] schedule = Biweekly -> Range(payday - 13, payday)

\* calculate_period whose Weekly arm goes back 7 days
calculate_period_8_days(schedule, payday) ==
    CASE schedule = Monthly -> Range(with_day_1(payday), payday)
      [] schedule = Weekly -> Range(payday - 7, payday)
      [] schedule = Biweekly -> Range(payday - 13, payday)

calculate_period(schedule, payday) ==
    CASE schedule = Monthly -> Range(with_day_1(payday), payday)
      [] schedule = Weekly -> Range(payday - 6, payday)
      [] schedule = Biweekly -> Range(payday - 13, payday)

Salaried(salary) == [tag |-> "Salaried", salary |-> salary]

Hourly(hourly_rate, timecards) ==
    [tag |-> "Hourly", hourly_rate |-> hourly_rate, timecards |-> timecards]

Commissioned(salary, commission_rate, sales_receipts) ==
    [tag |-> "Commissioned", salary |-> salary,
     commission_rate |-> commission_rate, sales_receipts |-> sales_receipts]

TimeCard_new(date, hours) == [date |-> date, hours |-> hours]

SalesReceipt_new(date, amount) == [date |-> date, amount |-> amount]

ServiceCharge_new(date, amount) == [date |-> date, amount |-> amount]

Unaffiliated == [tag |-> "Unaffiliated"]

Union(member_id, dues, service_charges) ==
    [tag |-> "Union", member_id |-> member_id, dues |-> dues,
     service_charges |-> service_charges]

Hold == [tag |-> "Hold"]

Mail(address) == [tag |-> "Mail", address |-> address]

Direct(bank, account) == [tag |-> "Direct", bank |-> bank, account |-> account]

Max(a, b) == IF a >= b THEN a ELSE b

calc_pay_for_timecard(tc, hourly_rate) ==
    LET hours == tc.hours
        overtime == Max(hours - 8, 0)
        straight_time == hours - overtime
    IN  straight_time * hourly_rate + (overtime * hourly_rate * 3) \div 2

calc_pay_for_sales_receipt(sr, commission_rate) ==
    (sr.amount * commission_rate) \div 100

RECURSIVE total_timecards_any_date(_, _, _)
\* total_timecards without the test of the period
total_timecards_any_date(timecards, hourly_rate, period) ==
    IF timecards = <<>> THEN 0
    ELSE calc_pay_for_timecard(Head(timecards), hourly_rate)
         + total_timecards_any_date(Tail(timecards), hourly_rate, period)

RECURSIVE total_timecards(_, _, _)
total_timecards(timecards, hourly_rate, period) ==
    IF timecards = <<>> THEN 0
    ELSE (IF contains(period, Head(timecards).date)
          THEN calc_pay_for_timecard(Head(timecards), hourly_rate) ELSE 0)
         + total_timecards(Tail(timecards), hourly_rate, period)

RECURSIVE total_sales_receipts(_, _, _)
total_sales_receipts(sales_receipts, commission_rate, period) ==
    IF sales_receipts = <<>> THEN 0
    ELSE (IF contains(period, Head(sales_receipts).date)
          THEN calc_pay_for_sales_receipt(Head(sales_receipts), commission_rate)
          ELSE 0)
         + total_sales_receipts(Tail(sales_receipts), commission_rate, period)

\* calculate_pay whose Commissioned arm starts its total at 0
calculate_pay_commission_only(classification, pc) ==
    CASE classification.tag = "Salaried" -> classification.salary
      [] classification.tag = "Hourly" ->
            total_timecards(classification.timecards,
                            classification.hourly_rate, pc.period)
      [] classification.tag = "Commissioned" ->
            total_sales_receipts(classification.sales_receipts,
                                 classification.commission_rate, pc.period)

calculate_pay(classification, pc) ==
    CASE classification.tag = "Salaried" -> classification.salary
      [] classification.tag = "Hourly" ->
            total_timecards(classification.timecards,
                            classification.hourly_rate, pc.period)
      [] classification.tag = "Commissioned" ->
            classification.salary
            + total_sales_receipts(classification.sales_receipts,
                                   classification.commission_rate, pc.period)

RECURSIVE total_dues_exclusive(_, _, _)
\* total_dues that leaves the loop on the last day of the period
total_dues_exclusive(d, end, dues) ==
    IF d >= end THEN 0
    ELSE (IF weekday(d) = Fri THEN dues ELSE 0)
         + total_dues_exclusive(d + 1, end, dues)

RECURSIVE total_dues(_, _, _)
\* the loop over period.start().iter_days() up to period.end()
total_dues(d, end, dues) ==
    IF d > end THEN 0
    ELSE (IF weekday(d) = Fri THEN dues ELSE 0) + total_dues(d + 1, end, dues)

RECURSIVE total_service_charges(_, _)
total_service_charges(service_charges, period) ==
    IF service_charges = <<>> THEN 0
    ELSE (IF contains(period, Head(service_charges).date)
          THEN Head(service_charges).amount ELSE 0)
         + total_service_charges(Tail(service_charges), period)

calculate_deductions(affiliation, pc) ==
    CASE affiliation.tag = "Unaffiliated" -> 0
      [] affiliation.tag = "Union" ->
            total_dues(pc.period.start, pc.period.end, affiliation.dues)
            + total_service_charges(affiliation.service_charges, pc.period)


-----------------------------------------------------------------------------
(* Results and worlds.  A world w holds the three maps of the store, the   *)
(* calls made so far by the transaction that runs, and faults: the emp_ids *)
(* for which record_paycheck of the storage port answers Err (empty for    *)
(* MockDb, whose record_paycheck never fails).  A transaction maps a world *)
(* to an outcome [w |-> the world after it, r |-> its result].             *)

Ok(v) == [tag |-> "Ok", val |-> v]

\* a DaoError: InsertError, DeleteError, FetchError or UpdateError
DaoError(e) == [tag |-> "Err", err |-> e]

Panic == [tag |-> "Panic"]

\* Result::map_err(UsecaseError::<usecase>): wrap the DaoError of a failure
map_err(r, usecase) ==
    IF r.tag = "Err" THEN [tag |-> "Err", err |-> usecase, cause |-> r.err] ELSE r

\* a UsecaseError made from a message, not from a DaoError
UsecaseError(usecase) == [tag |-> "Err", err |-> usecase, cause |-> "String"]

Out(w, r) == [w |-> w, r |-> r]

\* Tx::map_err on the outcome of a DAO call
tx_map_err(out, usecase) == [w |-> out.w, r |-> map_err(out.r, usecase)]

Put(map, k, v) == [x \in DOMAIN map \cup {k} |-> IF x = k THEN v ELSE map[x]]

Remove(map, k) == [x \in DOMAIN map \ {k} |-> map[x]]

EmptyMap == [x \in {} |-> 0]

World(emps, members, pcs, faults) ==
    [employees |-> emps, union_members |-> members, paychecks |-> pcs,
     calls |-> <<>>, faults |-> faults]

Call(w, c) == [w EXCEPT !.calls = Append(@, c)]

-----------------------------------------------------------------------------
(* payroll-domain: Employee and Paycheck.                                  *)

Employee(emp_id, name, address, classification, schedule, method, affiliation) ==
    [emp_id |-> emp_id, name |-> name, address |-> address,
     classification |-> classification, schedule |-> schedule,
     method |-> method, affiliation |-> affiliation]

Paycheck_new(period) ==
    [period |-> period, gross_pay |-> 0, deductions |-> 0, net_pay |-> 0]

\* set_pay with the deductions left out of the net pay
set_pay_gross(pc, gross_pay, deductions) ==
    [pc EXCEPT !.gross_pay = gross_pay, !.deductions = deductions,
               !.net_pay = gross_pay]

\* the three setters of Employee::payday
set_pay(pc, gross_pay, deductions) ==
    [pc EXCEPT !.gross_pay = gross_pay, !.deductions = deductions,
               !.net_pay = gross_pay - deductions]

\* PaymentMethod::pay: prints the paycheck; the world keeps the call
method_pay(w, emp, pc) ==
    [w |-> Call(w, <<"pay", emp.emp_id, emp.method, pc>>), pc |-> pc]

\* Employee::payday that calls method.pay before the three setters
Employee_payday_early(w, emp, pc) ==
    [w |-> method_pay(w, emp, pc).w,
     pc |-> set_pay(pc, calculate_pay(emp.classification, pc),
                    calculate_deductions(emp.affiliation, pc))]

Employee_payday(w, emp, pc) ==
    method_pay(w, emp,
               set_pay(pc, calculate_pay(emp.classification, pc),
                       calculate_deductions(emp.affiliation, pc)))

-----------------------------------------------------------------------------
(* payroll-impl: the operations of one variant only.                       *)

\* add_timecard that leaves out a timecard the list holds already
add_timecard_unique(classification, tc) ==
    IF classification.tag # "Hourly" THEN Panic
    ELSE IF \E i \in DOMAIN classification.timecards :
               classification.timecards[i] = tc
    THEN classification
    ELSE [classification EXCEPT !.timecards = Append(@, tc)]

\* PaymentClassificationImpl::add_timecard: the classification after the
\* push, or Panic where the code panics
add_timecard(classification, tc) ==
    IF classification.tag = "Hourly"
    THEN [classification EXCEPT !.timecards = Append(@, tc)]
    ELSE Panic

add_sales_receipt(classification, sr) ==
    IF classification.tag = "Commissioned"
    THEN [classification EXCEPT !.sales_receipts = Append(@, sr)]
    ELSE Panic

add_service_charge(affiliation, sc) ==
    IF affiliation.tag = "Union"
    THEN [affiliation EXCEPT !.service_charges = Append(@, sc)]
    ELSE Panic

\* AffiliationImpl::get_member_id
get_member_id(affiliation) ==
    IF affiliation.tag = "Union" THEN Ok(affiliation.member_id) ELSE Panic

\* as_any_mut().downcast_mut::<PaymentClassificationImpl>() is Some: every
\* PaymentClassification of the program is a PaymentClassificationImpl
downcast_classification(classification) ==
    classification.tag \in {"Salaried", "Hourly", "Commissioned"}

\* as_any().downcast_ref::<AffiliationImpl>() is Some likewise
downcast_affiliation(affiliation) ==
    affiliation.tag \in {"Unaffiliated", "Union"}

-----------------------------------------------------------------------------
(* mock_db::MockDb, the PayrollDao of the program.                         *)

\* insert without its test of the key: HashMap::insert alone
insert_over(w, emp) ==
    Out([Call(w, <<"insert", emp.emp_id>>)
            EXCEPT !.employees = Put(@, emp.emp_id, emp)],
        Ok(emp.emp_id))

insert(w, emp) ==
    IF emp.emp_id \in DOMAIN w.employees
    THEN Out(Call(w, <<"insert", emp.emp_id>>), DaoError("InsertError"))
    ELSE Out([Call(w, <<"insert", emp.emp_id>>)
                 EXCEPT !.employees = Put(@, emp.emp_id, emp)],
             Ok(emp.emp_id))

\* delete that answers Ok for an emp_id the store does not hold
delete_quiet(w, emp_id) ==
    Out([Call(w, <<"delete", emp_id>>) EXCEPT !.employees = Remove(@, emp_id)],
        Ok(<<>>))

delete(w, emp_id) ==
    IF emp_id \notin DOMAIN w.employees
    THEN Out(Call(w, <<"delete", emp_id>>), DaoError("DeleteError"))
    ELSE Out([Call(w, <<"delete", emp_id>>) EXCEPT !.employees = Remove(@, emp_id)],
             Ok(<<>>))

fetch(w, emp_id) ==
    IF emp_id \in DOMAIN w.employees
    THEN Out(Call(w, <<"fetch", emp_id>>), Ok(w.employees[emp_id]))
    ELSE Out(Call(w, <<"fetch", emp_id>>), DaoError("FetchError"))

\* update with the key test of insert: an employee that is stored is refused
update_as_insert(w, emp) ==
    IF emp.emp_id \in DOMAIN w.employees
    THEN Out(Call(w, <<"update", emp.emp_id>>), DaoError("UpdateError"))
    ELSE Out([Call(w, <<"update", emp.emp_id>>)
                 EXCEPT !.employees = Put(@, emp.emp_id, emp)],
             Ok(<<>>))

update(w, emp) ==
    IF emp.emp_id \notin DOMAIN w.employees
    THEN Out(Call(w, <<"update", emp.emp_id>>), DaoError("UpdateError"))
    ELSE Out([Call(w, <<"update", emp.emp_id>>)
                 EXCEPT !.employees = Put(@, emp.emp_id, emp)],
             Ok(<<>>))

\* employees.values().cloned().collect(): the values in the order the HashMap
\* iterates them, which is the permutation order of its keys
fetch_all(w, order) ==
    Out(Call(w, <<"fetch_all">>),
        Ok([i \in 1..Len(order) |-> w.employees[order[i]]]))

\* add_union_member without its first check, that of the member id
add_union_member_by_emp(w, member_id, emp_id) ==
    IF \E m \in DOMAIN w.union_members : w.union_members[m] = emp_id
    THEN Out(Call(w, <<"add_union_member", member_id, emp_id>>),
             DaoError("InsertError"))
    ELSE Out([Call(w, <<"add_union_member", member_id, emp_id>>)
                 EXCEPT !.union_members = Put(@, member_id, emp_id)],
             Ok(<<>>))

\* add_union_member taking over the entry of a member id that is a key
add_union_member_replacing(w, member_id, emp_id) ==
    Out([Call(w, <<"add_union_member", member_id, emp_id>>)
            EXCEPT !.union_members = Put(@, member_id, emp_id)],
        Ok(<<>>))

\* add_union_member answering Ok without keeping the entry
add_union_member_unkept(w, member_id, emp_id) ==
    IF member_id \in DOMAIN w.union_members
    THEN Out(Call(w, <<"add_union_member", member_id, emp_id>>),
             DaoError("InsertError"))
    ELSE IF \E m \in DOMAIN w.union_members : w.union_members[m] = emp_id
    THEN Out(Call(w, <<"add_union_member", member_id, emp_id>>),
             DaoError("InsertError"))
    ELSE Out(Call(w, <<"add_union_member", member_id, emp_id>>), Ok(<<>>))

\* add_union_member without its second check, that of the employee
add_union_member_by_key(w, member_id, emp_id) ==
    IF member_id \in DOMAIN w.union_members
    THEN Out(Call(w, <<"add_union_member", member_id, emp_id>>),
             DaoError("InsertError"))
    ELSE Out([Call(w, <<"add_union_member", member_id, emp_id>>)
                 EXCEPT !.union_members = Put(@, member_id, emp_id)],
             Ok(<<>>))

add_union_member(w, member_id, emp_id) ==
    IF member_id \in DOMAIN w.union_members
    THEN Out(Call(w, <<"add_union_member", member_id, emp_id>>),
             DaoError("InsertError"))
    ELSE IF \E m \in DOMAIN w.union_members : w.union_members[m] = emp_id
    THEN Out(Call(w, <<"add_union_member", member_id, emp_id>>),
             DaoError("InsertError"))
    ELSE Out([Call(w, <<"add_union_member", member_id, emp_id>>)
                 EXCEPT !.union_members = Put(@, member_id, emp_id)],
             Ok(<<>>))

\* remove_union_member that answers Ok and removes nothing
remove_union_member_kept(w, member_id) ==
    IF member_id \notin DOMAIN w.union_members
    THEN Out(Call(w, <<"remove_union_member", member_id>>), DaoError("DeleteError"))
    ELSE Out(Call(w, <<"remove_union_member", member_id>>), Ok(<<>>))

remove_union_member(w, member_id) ==
    IF member_id \notin DOMAIN w.union_members
    THEN Out(Call(w, <<"remove_union_member", member_id>>), DaoError("DeleteError"))
    ELSE Out([Call(w, <<"remove_union_member", member_id>>)
                 EXCEPT !.union_members = Remove(@, member_id)],
             Ok(<<>>))

find_union_member(w, member_id) ==
    IF member_id \in DOMAIN w.union_members
    THEN Out(Call(w, <<"find_union_member", member_id>>),
             Ok(w.union_members[member_id]))
    ELSE Out(Call(w, <<"find_union_member", member_id>>), DaoError("FetchError"))

\* push_paycheck that skips a paycheck whose period the list already holds
push_paycheck_once(pcs, emp_id, pc) ==
    IF emp_id \in DOMAIN pcs /\ \E i \in DOMAIN pcs[emp_id] : pcs[emp_id][i].period = pc.period
    THEN pcs
    ELSE Put(pcs, emp_id, Append(IF emp_id \in DOMAIN pcs THEN pcs[emp_id] ELSE <<>>, pc))

\* push_paycheck as HashMap::insert of a list of one: the list is replaced
push_paycheck_insert(pcs, emp_id, pc) == Put(pcs, emp_id, <<pc>>)

\* paychecks.entry(emp_id).or_insert(vec![]).push(pc)
push_paycheck(pcs, emp_id, pc) ==
    Put(pcs, emp_id, Append(IF emp_id \in DOMAIN pcs THEN pcs[emp_id] ELSE <<>>, pc))

\* PayrollDao::record_paycheck: MockDb's always answers Ok; a storage port
\* with faults answers Err for the emp_ids it cannot record
record_paycheck(w, emp_id, pc) ==
    IF emp_id \in w.faults
    THEN Out(Call(w, <<"record_paycheck", emp_id>>), DaoError("UpdateError"))
    ELSE Out([Call(w, <<"record_paycheck", emp_id>>)
                 EXCEPT !.paychecks = push_paycheck(@, emp_id, pc)],
             Ok(<<>>))

-----------------------------------------------------------------------------
(* abstract-tx: the templates.                                             *)

\* AddEmployeeTx with the name and the address taken for each other
AddEmployeeTx_swapped(w, emp_id, name, address, classification, schedule) ==
    tx_map_err(insert(w, Employee(emp_id, address, name, classification,
                                  schedule, Hold, Unaffiliated)),
               "RegisterEmployeeFailed")

AddEmployeeTx(w, emp_id, name, address, classification, schedule) ==
    tx_map_err(insert(w, Employee(emp_id, name, address, classification,
                                  schedule, Hold, Unaffiliated)),
               "RegisterEmployeeFailed")

\* the end of the closure of ChangeUnaffiliatedTx, from the member id on
remove_membership(w, emp, member_id) ==
    IF member_id.tag = "Panic"
    THEN Out(Call(w, <<"get_member_id", emp.emp_id>>), Panic)
    ELSE tx_map_err(remove_union_member(w, member_id.val), "RemoveUnionMemberFailed")

\* the closure record_membership of ChangeUnionMemberTx and of
\* ChangeUnaffiliatedTx.  The downcast to AffiliationImpl cannot fail (it is
\* the only Affiliation), so get_member_id is what meets an Unaffiliated.
record_membership(w, emp, rm) ==
    CASE rm.fn = "add_union_member" ->
            tx_map_err(add_union_member(w, rm.member_id, rm.emp_id),
                       "AddUnionMemberFailed")
      [] rm.fn = "remove_union_member" ->
            IF ~downcast_affiliation(emp.affiliation)
            THEN Out(w, UsecaseError("UnexpectedAffiliation"))
            ELSE remove_membership(w, emp, get_member_id(emp.affiliation))

\* set_affiliation without emp.set_affiliation(affiliation)
set_affiliation_kept(m, emp, affiliation) ==
    IF m.r.tag # "Ok" THEN [w |-> m.w, emp |-> emp, r |-> m.r]
    ELSE [w |-> m.w, emp |-> emp, r |-> Ok(<<>>)]

\* the closure of ChangeAffiliationTx after record_membership(ctx, emp)
set_affiliation(m, emp, affiliation) ==
    IF m.r.tag # "Ok" THEN [w |-> m.w, emp |-> emp, r |-> m.r]
    ELSE [w |-> m.w, emp |-> [emp EXCEPT !.affiliation = affiliation],
          r |-> Ok(<<>>)]

\* the closure f handed to ChangeEmployeeTx::execute, applied to (ctx, emp)
call_f(w, emp, f) ==
    CASE f.fn = "set_name" ->
            [w |-> w, emp |-> [emp EXCEPT !.name = f.name], r |-> Ok(<<>>)]
      [] f.fn = "set_address" ->
            [w |-> w, emp |-> [emp EXCEPT !.address = f.address], r |-> Ok(<<>>)]
      [] f.fn = "set_classification" ->
            [w |-> w,
             emp |-> [emp EXCEPT !.classification = f.classification,
                                 !.schedule = f.schedule],
             r |-> Ok(<<>>)]
      [] f.fn = "set_method" ->
            [w |-> w, emp |-> [emp EXCEPT !.method = f.method], r |-> Ok(<<>>)]
      [] f.fn = "set_affiliation" ->
            set_affiliation(record_membership(w, emp, f.record_membership),
                            emp, f.affiliation)

\* ChangeEmployeeTx_update without the ? on f's result
ChangeEmployeeTx_update_always(done, emp_id) ==
    tx_map_err(update(Call(done.w, <<"f", emp_id, done.r>>), done.emp),
               "UpdateEmployeeFailed")

\* ChangeEmployeeTx::execute from the return of f on: the ? on f's result,
\* then update.  The world keeps f's return with its result.
ChangeEmployeeTx_update(done, emp_id) ==
    IF done.r.tag # "Ok" THEN Out(Call(done.w, <<"f", emp_id, done.r>>), done.r)
    ELSE tx_map_err(update(Call(done.w, <<"f", emp_id, done.r>>), done.emp),
                    "UpdateEmployeeFailed")

\* ChangeEmployeeTx::execute from the return of fetch on
ChangeEmployeeTx_f(got, emp_id, f) ==
    IF got.r.tag # "Ok" THEN Out(got.w, map_err(got.r, "NotFound"))
    ELSE ChangeEmployeeTx_update(call_f(got.w, got.r.val, f), emp_id)

ChangeEmployeeTx(w, emp_id, f) == ChangeEmployeeTx_f(fetch(w, emp_id), emp_id, f)

ChangeAffiliationTx(w, emp_id, rm, affiliation) ==
    ChangeEmployeeTx(w, emp_id,
        [fn |-> "set_affiliation", record_membership |-> rm, affiliation |-> affiliation])

ChangeEmployeePaymentClassificationTx(w, emp_id, classification, schedule) ==
    ChangeEmployeeTx(w, emp_id,
        [fn |-> "set_classification", classification |-> classification,
         schedule |-> schedule])

ChangeEmployeePaymentMethodTx(w, emp_id, method) ==
    ChangeEmployeeTx(w, emp_id, [fn |-> "set_method", method |-> method])

-----------------------------------------------------------------------------
(* tx-impl: the concrete transactions.                                     *)

AddSalaryEmployeeTx(w, emp_id, name, address, salary) ==
    AddEmployeeTx(w, emp_id, name, address, Salaried(salary), Monthly)

AddHourlyEmployeeTx(w, emp_id, name, address, hourly_rate) ==
    AddEmployeeTx(w, emp_id, name, address, Hourly(hourly_rate, <<>>), Weekly)

AddCommissionedEmployeeTx(w, emp_id, name, address, salary, commission_rate) ==
    AddEmployeeTx(w, emp_id, name, address,
                  Commissioned(salary, commission_rate, <<>>), Biweekly)

\* DeleteEmployeeTx that also drops the index entries of the employee
DeleteEmployeeTx_cascade(w, emp_id) ==
    tx_map_err(
        delete([w EXCEPT !.union_members =
                   [m \in {k \in DOMAIN w.union_members :
                              w.union_members[k] # emp_id}
                      |-> w.union_members[m]]],
               emp_id),
        "UnregisterEmployeeFailed")

DeleteEmployeeTx(w, emp_id) ==
    tx_map_err(delete(w, emp_id), "UnregisterEmployeeFailed")

\* the end of TimeCardTx and of SalesReceiptTx, from the call of add_timecard
\* or add_sales_receipt on.  The record is pushed through borrow_mut() of the
\* classification the clone shares with the stored employee, then the clone
\* is written back.
update_classification(w, emp, added) ==
    IF added.tag = "Panic" THEN Out(w, Panic)
    ELSE tx_map_err(update([w EXCEPT !.employees[emp.emp_id].classification = added],
                           [emp EXCEPT !.classification = added]),
                    "UpdateEmployeeFailed")

\* TimeCardTx::execute from the return of fetch on
TimeCardTx_add(got, emp_id, date, hours) ==
    IF got.r.tag # "Ok" THEN Out(got.w, map_err(got.r, "NotFound"))
    ELSE IF ~downcast_classification(got.r.val.classification)
    THEN Out(got.w, UsecaseError("UnexpectedPaymentClassification"))
    ELSE update_classification(Call(got.w, <<"add_timecard", emp_id>>), got.r.val,
             add_timecard(got.r.val.classification, TimeCard_new(date, hours)))

TimeCardTx(w, emp_id, date, hours) ==
    TimeCardTx_add(fetch(w, emp_id), emp_id, date, hours)

\* SalesReceiptTx::execute from the return of fetch on
SalesReceiptTx_add(got, emp_id, date, amount) ==
    IF got.r.tag # "Ok" THEN Out(got.w, map_err(got.r, "NotFound"))
    ELSE IF ~downcast_classification(got.r.val.classification)
    THEN Out(got.w, UsecaseError("UnexpectedPaymentClassification"))
    ELSE update_classification(Call(got.w, <<"add_sales_receipt", emp_id>>), got.r.val,
             add_sales_receipt(got.r.val.classification,
                               SalesReceipt_new(date, amount)))

\* SalesReceiptTx that pushes the receipt on a copy the store never sees
SalesReceiptTx_unsaved(w, emp_id, date, amount) ==
    Out(fetch(w, emp_id).w,
        IF fetch(w, emp_id).r.tag = "Ok" THEN Ok(<<>>)
        ELSE map_err(fetch(w, emp_id).r, "NotFound"))

SalesReceiptTx(w, emp_id, date, amount) ==
    SalesReceiptTx_add(fetch(w, emp_id), emp_id, date, amount)

\* the end of ServiceChargeTx, from the call of add_service_charge on
update_affiliation(w, emp, added) ==
    IF added.tag = "Panic" THEN Out(w, Panic)
    ELSE tx_map_err(update([w EXCEPT !.employees[emp.emp_id].affiliation = added],
                           [emp EXCEPT !.affiliation = added]),
                    "UpdateEmployeeFailed")

\* ServiceChargeTx::execute from the return of fetch on
ServiceChargeTx_add(got, date, amount) ==
    IF got.r.tag # "Ok" THEN Out(got.w, map_err(got.r, "NotFound"))
    ELSE IF ~downcast_affiliation(got.r.val.affiliation)
    THEN Out(got.w, UsecaseError("UnexpectedAffiliation"))
    ELSE update_affiliation(Call(got.w, <<"add_service_charge", got.r.val.emp_id>>),
             got.r.val,
             add_service_charge(got.r.val.affiliation, ServiceCharge_new(date, amount)))

\* ServiceChargeTx::execute from the return of find_union_member on
ServiceChargeTx_fetch(found, date, amount) ==
    IF found.r.tag # "Ok" THEN Out(found.w, map_err(found.r, "NotFound"))
    ELSE ServiceChargeTx_add(fetch(found.w, found.r.val), date, amount)

ServiceChargeTx(w, member_id, date, amount) ==
    ServiceChargeTx_fetch(find_union_member(w, member_id), date, amount)

RECURSIVE payday_loop(_, _, _)
RECURSIVE payday_record(_, _, _, _)

\* payday_next without the ? on record_paycheck
payday_next_ignoring(rec, emps, pay_date) == payday_loop(rec.w, emps, pay_date)

\* the loop of PaydayTx::execute leaving at the first employee who is not due
payday_loop_break(w, emps, pay_date) ==
    IF emps = <<>> THEN Out(w, Ok(<<>>))
    ELSE IF is_pay_date(Head(emps).schedule, pay_date)
    THEN payday_record(
             Employee_payday(w, Head(emps),
                 Paycheck_new(calculate_period(Head(emps).schedule, pay_date))),
             Head(emps).emp_id, Tail(emps), pay_date)
    ELSE Out(w, Ok(<<>>))

\* payday_loop without the test of is_pay_date
payday_loop_everyone(w, emps, pay_date) ==
    IF emps = <<>> THEN Out(w, Ok(<<>>))
    ELSE payday_record(
             Employee_payday(w, Head(emps),
                 Paycheck_new(calculate_period(Head(emps).schedule, pay_date))),
             Head(emps).emp_id, Tail(emps), pay_date)

\* the body of the loop of PaydayTx::execute from emp.payday(&mut pc) on; the
\* ? on record_paycheck leaves the loop at the first failure
payday_next(rec, emps, pay_date) ==
    IF rec.r.tag # "Ok" THEN Out(rec.w, map_err(rec.r, "UpdateEmployeeFailed"))
    ELSE payday_loop(rec.w, emps, pay_date)

\* payday_record that consumes the timecards of the Hourly employee it paid
payday_record_consuming(paid, emp_id, emps, pay_date) ==
    payday_next(
        record_paycheck(
            IF paid.w.employees[emp_id].classification.tag = "Hourly"
            THEN [paid.w EXCEPT !.employees[emp_id].classification.timecards = <<>>]
            ELSE paid.w,
            emp_id, paid.pc),
        emps, pay_date)

payday_record(paid, emp_id, emps, pay_date) ==
    payday_next(record_paycheck(paid.w, emp_id, paid.pc), emps, pay_date)

\* the loop "for emp in emps" of PaydayTx::execute
payday_loop(w, emps, pay_date) ==
    IF emps = <<>> THEN Out(w, Ok(<<>>))
    ELSE IF is_pay_date(Head(emps).schedule, pay_date)
    THEN payday_record(
             Employee_payday(w, Head(emps),
                 Paycheck_new(calculate_period(Head(emps).schedule, pay_date))),
             Head(emps).emp_id, Tail(emps), pay_date)
    ELSE payday_loop(w, Tail(emps), pay_date)

\* PaydayTx::execute from the return of fetch_all on
PaydayTx_loop(all, pay_date) ==
    IF all.r.tag # "Ok" THEN Out(all.w, map_err(all.r, "GetAllFailed"))
    ELSE payday_loop(all.w, all.r.val, pay_date)

PaydayTx(w, pay_date, order) == PaydayTx_loop(fetch_all(w, order), pay_date)

\* ChangeEmployeeNameTx whose closure sets the address
ChangeEmployeeNameTx_address(w, emp_id, name) ==
    ChangeEmployeeTx(w, emp_id, [fn |-> "set_address", address |-> name])

ChangeEmployeeNameTx(w, emp_id, name) ==
    ChangeEmployeeTx(w, emp_id, [fn |-> "set_name", name |-> name])

ChangeEmployeeAddressTx(w, emp_id, address) ==
    ChangeEmployeeTx(w, emp_id, [fn |-> "set_address", address |-> address])

\* ChangeEmployeeSalariedTx with the schedule of another kind
ChangeEmployeeSalariedTx_weekly(w, emp_id, salary) ==
    ChangeEmployeePaymentClassificationTx(w, emp_id, Salaried(salary), Weekly)

ChangeEmployeeSalariedTx(w, emp_id, salary) ==
    ChangeEmployeePaymentClassificationTx(w, emp_id, Salaried(salary), Monthly)

\* ChangeEmployeeHourlyTx that keeps the timecards of an Hourly employee
ChangeEmployeeHourlyTx_keeping(w, emp_id, hourly_rate) ==
    ChangeEmployeePaymentClassificationTx(w, emp_id,
        Hourly(hourly_rate,
               IF emp_id \in DOMAIN w.employees
                  /\ w.employees[emp_id].classification.tag = "Hourly"
               THEN w.employees[emp_id].classification.timecards
               ELSE <<>>),
        Weekly)

ChangeEmployeeHourlyTx(w, emp_id, hourly_rate) ==
    ChangeEmployeePaymentClassificationTx(w, emp_id, Hourly(hourly_rate, <<>>), Weekly)

ChangeEmployeeCommissionedTx(w, emp_id, salary, commission_rate) ==
    ChangeEmployeePaymentClassificationTx(w, emp_id,
        Commissioned(salary, commission_rate, <<>>), Biweekly)

ChangeEmployeeHoldTx(w, emp_id) ==
    ChangeEmployeePaymentMethodTx(w, emp_id, Hold)

ChangeEmployeeDirectTx(w, emp_id, bank, account) ==
    ChangeEmployeePaymentMethodTx(w, emp_id, Direct(bank, account))

\* ChangeEmployeeMailTx that sets the address of the employee as well
ChangeEmployeeMailTx_address(w, emp_id, address) ==
    ChangeEmployeePaymentMethodTx(
        [w EXCEPT !.employees =
            [e \in DOMAIN @ |->
                IF e = emp_id THEN [@[e] EXCEPT !.address = address] ELSE @[e]]],
        emp_id, Mail(address))

ChangeEmployeeMailTx(w, emp_id, address) ==
    ChangeEmployeePaymentMethodTx(w, emp_id, Mail(address))

ChangeUnionMemberTx(w, emp_id, member_id, dues) ==
    ChangeAffiliationTx(w, emp_id,
        [fn |-> "add_union_member", member_id |-> member_id, emp_id |-> emp_id],
        Union(member_id, dues, <<>>))

ChangeUnaffiliatedTx(w, emp_id) ==
    ChangeAffiliationTx(w, emp_id, [fn |-> "remove_union_member"], Unaffiliated)

-----------------------------------------------------------------------------
(* text-parser-tx-source and mock-tx-impl: a Command and the transaction   *)
(* to_tx makes of it.                                                      *)

\* to_tx(command, db) followed by the execute of the tx-impl trait it names;
\* order is the order in which fetch_all of a Payday iterates the employees
to_tx(w, cmd, order) ==
    CASE cmd.kind = "AddSalaryEmp" ->
            AddSalaryEmployeeTx(w, cmd.emp_id, cmd.name, cmd.address, cmd.salary)
      [] cmd.kind = "AddHourlyEmp" ->
            AddHourlyEmployeeTx(w, cmd.emp_id, cmd.name, cmd.address, cmd.hourly_rate)
      [] cmd.kind = "AddCommissionedEmp" ->
            AddCommissionedEmployeeTx(w, cmd.emp_id, cmd.name, cmd.address,
                                      cmd.salary, cmd.commission_rate)
      [] cmd.kind = "DelEmp" -> DeleteEmployeeTx(w, cmd.emp_id)
      [] cmd.kind = "TimeCard" -> TimeCardTx(w, cmd.emp_id, cmd.date, cmd.hours)
      [] cmd.kind = "SalesReceipt" ->
            SalesReceiptTx(w, cmd.emp_id, cmd.date, cmd.amount)
      [] cmd.kind = "ServiceCharge" ->
            ServiceChargeTx(w, cmd.member_id, cmd.date, cmd.amount)
      [] cmd.kind = "ChgName" -> ChangeEmployeeNameTx(w, cmd.emp_id, cmd.name)
      [] cmd.kind = "ChgAddress" ->
            ChangeEmployeeAddressTx(w, cmd.emp_id, cmd.address)
      [] cmd.kind = "ChgHourly" ->
            ChangeEmployeeHourlyTx(w, cmd.emp_id, cmd.hourly_rate)
      [] cmd.kind = "ChgSalaried" ->
            ChangeEmployeeSalariedTx(w, cmd.emp_id, cmd.salary)
      [] cmd.kind = "ChgCommissioned" ->
            ChangeEmployeeCommissionedTx(w, cmd.emp_id, cmd.salary, cmd.commission_rate)
      [] cmd.kind = "ChgHold" -> ChangeEmployeeHoldTx(w, cmd.emp_id)
      [] cmd.kind = "ChgDirect" ->
            ChangeEmployeeDirectTx(w, cmd.emp_id, cmd.bank, cmd.account)
      [] cmd.kind = "ChgMail" -> ChangeEmployeeMailTx(w, cmd.emp_id, cmd.address)
      [] cmd.kind = "ChgMember" ->
            ChangeUnionMemberTx(w, cmd.emp_id, cmd.member_id, cmd.dues)
      [] cmd.kind = "ChgNoMember" -> ChangeUnaffiliatedTx(w, cmd.emp_id)
      [] cmd.kind = "Payday" -> PaydayTx(w, cmd.pay_date, order)

\* .map(|_| ()) of Transaction::execute of a *TxImpl
map_unit(out) == [w |-> out.w, r |-> IF out.r.tag = "Ok" THEN Ok(<<>>) ELSE out.r]

\* Transaction::execute of the transaction to_tx made of a command
Transaction_execute(w, cmd, order) == map_unit(to_tx(w, cmd, order))

-----------------------------------------------------------------------------
(* The inputs.  A behaviour draws its commands from one family (focus), so *)
(* that the reachable states are the union over the families and not the   *)
(* product of every facet of two employees:                                *)
(*   general  two employees; name, address, method, kind of classification *)
(*   union    two employees; affiliation, union index, service charges     *)
(*   hourly   one employee; time cards, paydays, paychecks                *)
(*   sales    one employee; sales receipts, paydays, paychecks             *)
(*   dues     one employee; membership, service charges, paydays           *)
(*   payday   two employees of every kind; paydays in either fetch order   *)
(*   records  one employee; up to MaxPosted records posted one after another *)
(*   port     three employees; paydays over a storage port whose           *)
(*            record_paycheck fails                                        *)
(*   driver   a script run by TransactionApplication::run                  *)

Focuses == {"general", "union", "hourly", "sales", "dues", "payday", "records"}

EmpIds ==
    CASE focus \in {"hourly", "sales", "dues", "records"} -> {1}
      [] focus = "port" -> {1, 2, 3}
      [] OTHER -> {1, 2}

MemberIds == IF focus \in {"dues", "records"} THEN {7} ELSE {7, 8}

Names == IF focus = "general" THEN {"Bob", "Bill"} ELSE {"Bob"}

Addresses == IF focus = "general" THEN {"Home", "Office"} ELSE {"Home"}

Salaries == {1000}

HourlyRates == {10}

CommissionRates == {25}

HoursWorked == {8, 10}

Amounts == {200}

Dues == {5}

\* Wed 2024-01-17 and Sat 2024-01-27
RecordDates == {16, 26}

\* Fri 2024-01-19 (ISO week 3), Thu 2024-01-25, Fri 2024-01-26 (ISO week 4),
\* Wed 2024-01-31
PayDates == IF focus = "port" THEN {25, 30} ELSE {18, 24, 25, 30}

Kinds ==
    CASE focus = "general" ->
            {"AddSalaryEmp", "AddHourlyEmp", "AddCommissionedEmp", "DelEmp",
             "ChgName", "ChgAddress", "ChgHourly", "ChgSalaried", "ChgCommissioned",
             "ChgHold", "ChgDirect", "ChgMail"}
      [] focus = "union" ->
            {"AddSalaryEmp", "DelEmp", "ChgMember", "ChgNoMember", "ServiceCharge"}
      [] focus = "hourly" ->
            {"AddSalaryEmp", "AddHourlyEmp", "DelEmp", "ChgHourly", "ChgSalaried",
             "TimeCard", "Payday"}
      [] focus = "sales" ->
            {"AddHourlyEmp", "AddCommissionedEmp", "ChgHourly", "ChgCommissioned",
             "SalesReceipt", "Payday"}
      [] focus = "dues" ->
            {"AddSalaryEmp", "AddHourlyEmp", "ChgMember", "ChgNoMember",
             "ServiceCharge", "Payday"}
      [] focus = "payday" ->
            {"AddSalaryEmp", "AddHourlyEmp", "AddCommissionedEmp", "DelEmp",
             "ChgMail", "Payday"}
      [] focus = "records" ->
            {"AddHourlyEmp", "AddCommissionedEmp", "ChgMember", "TimeCard",
             "SalesReceipt", "ServiceCharge"}
      [] focus = "port" -> {"AddSalaryEmp", "AddHourlyEmp", "Payday"}
      [] OTHER -> {}

\* the sequences that list each element of S once
Orders(S) ==
    {p \in [1..Cardinality(S) -> S] : \A i, j \in 1..Cardinality(S) : p[i] = p[j] => i = j}

RECURSIVE SumOver(_, _)
SumOver(S, f) ==
    IF S = {} THEN 0
    ELSE LET x == CHOOSE y \in S : TRUE IN f[x] + SumOver(S \ {x}, f)

RecordsOf(emp) ==
    (IF emp.classification.tag = "Hourly" THEN Len(emp.classification.timecards)
     ELSE IF emp.classification.tag = "Commissioned"
     THEN Len(emp.classification.sales_receipts) ELSE 0)
    + (IF emp.affiliation.tag = "Union" THEN Len(emp.affiliation.service_charges)
       ELSE 0)

RecordCount(emps) == SumOver(DOMAIN emps, [i \in DOMAIN emps |-> RecordsOf(emps[i])])

\* the records the store of this behaviour may hold
RecordBound == IF focus = "records" THEN MaxPosted ELSE MaxRecords

PaycheckCount(pcs) == SumOver(DOMAIN pcs, [i \in DOMAIN pcs |-> Len(pcs[i])])

\* the store as the three maps of MockDb
Store == [employees |-> employees, union_members |-> union_members,
          paychecks |-> paychecks]

\* the store as the world a transaction starts from
Db(faults) == World(employees, union_members, paychecks, faults)

NoTx == [kind |-> "none"]

\* no transaction is being executed
Idle ==
    [tx |-> NoTx, result |-> Ok(<<>>), calls |-> <<>>, order |-> <<>>, faults |-> {},
     pre |-> [employees |-> EmptyMap, union_members |-> EmptyMap,
              paychecks |-> EmptyMap]]

\* what is kept of the execution of cmd with outcome out
Executed(cmd, order, faults, out) ==
    [tx |-> cmd, result |-> out.r, calls |-> out.w.calls, order |-> order,
     faults |-> faults, pre |-> Store]

\* the store takes the world a transaction leaves
Commit(cmd, order, faults, out) ==
    /\ last.tx.kind = "none"
    /\ cmd.kind \in Kinds
    /\ RecordCount(out.w.employees) <= RecordBound
    /\ PaycheckCount(out.w.paychecks) <= MaxPaychecks
    /\ employees' = out.w.employees
    /\ union_members' = out.w.union_members
    /\ paychecks' = out.w.paychecks
    /\ last' = Executed(cmd, order, faults, out)
    /\ UNCHANGED <<script, txs, executed, run_result, focus>>

-----------------------------------------------------------------------------
(* One action for each Command of the transaction source: the transaction  *)
(* to_tx makes of it, executed on the store.                               *)

AddSalaryEmp ==
    \E emp_id \in EmpIds, name \in Names, address \in Addresses, salary \in Salaries :
        Commit([kind |-> "AddSalaryEmp", emp_id |-> emp_id, name |-> name,
                address |-> address, salary |-> salary], <<>>, {},
               AddSalaryEmployeeTx(Db({}), emp_id, name, address, salary))

AddHourlyEmp ==
    \E emp_id \in EmpIds, name \in Names, address \in Addresses,
       hourly_rate \in HourlyRates :
        Commit([kind |-> "AddHourlyEmp", emp_id |-> emp_id, name |-> name,
                address |-> address, hourly_rate |-> hourly_rate], <<>>, {},
               AddHourlyEmployeeTx(Db({}), emp_id, name, address, hourly_rate))

AddCommissionedEmp ==
    \E emp_id \in EmpIds, name \in Names, address \in Addresses,
       salary \in Salaries, commission_rate \in CommissionRates :
        Commit([kind |-> "AddCommissionedEmp", emp_id |-> emp_id, name |-> name,
                address |-> address, salary |-> salary,
                commission_rate |-> commission_rate], <<>>, {},
               AddCommissionedEmployeeTx(Db({}), emp_id, name, address, salary,
                                         commission_rate))

DelEmp ==
    \E emp_id \in EmpIds :
        Commit([kind |-> "DelEmp", emp_id |-> emp_id], <<>>, {},
               DeleteEmployeeTx(Db({}), emp_id))

TimeCard ==
    \E emp_id \in EmpIds, date \in RecordDates, hours \in HoursWorked :
        Commit([kind |-> "TimeCard", emp_id |-> emp_id, date |-> date,
                hours |-> hours], <<>>, {},
               TimeCardTx(Db({}), emp_id, date, hours))

SalesReceipt ==
    \E emp_id \in EmpIds, date \in RecordDates, amount \in Amounts :
        Commit([kind |-> "SalesReceipt", emp_id |-> emp_id, date |-> date,
                amount |-> amount], <<>>, {},
               SalesReceiptTx(Db({}), emp_id, date, amount))

ServiceCharge ==
    \E member_id \in MemberIds, date \in RecordDates, amount \in Amounts :
        Commit([kind |-> "ServiceCharge", member_id |-> member_id, date |-> date,
                amount |-> amount], <<>>, {},
               ServiceChargeTx(Db({}), member_id, date, amount))

ChgName ==
    \E emp_id \in EmpIds, name \in Names :
        Commit([kind |-> "ChgName", emp_id |-> emp_id, name |-> name], <<>>, {},
               ChangeEmployeeNameTx(Db({}), emp_id, name))

ChgAddress ==
    \E emp_id \in EmpIds, address \in Addresses :
        Commit([kind |-> "ChgAddress", emp_id |-> emp_id, address |-> address],
               <<>>, {}, ChangeEmployeeAddressTx(Db({}), emp_id, address))

ChgHourly ==
    \E emp_id \in EmpIds, hourly_rate \in HourlyRates :
        Commit([kind |-> "ChgHourly", emp_id |-> emp_id,
                hourly_rate |-> hourly_rate], <<>>, {},
               ChangeEmployeeHourlyTx(Db({}), emp_id, hourly_rate))

ChgSalaried ==
    \E emp_id \in EmpIds, salary \in Salaries :
        Commit([kind |-> "ChgSalaried", emp_id |-> emp_id, salary |-> salary],
               <<>>, {}, ChangeEmployeeSalariedTx(Db({}), emp_id, salary))

ChgCommissioned ==
    \E emp_id \in EmpIds, salary \in Salaries, commission_rate \in CommissionRates :
        Commit([kind |-> "ChgCommissioned", emp_id |-> emp_id, salary |-> salary,
                commission_rate |-> commission_rate], <<>>, {},
               ChangeEmployeeCommissionedTx(Db({}), emp_id, salary, commission_rate))

ChgHold ==
    \E emp_id \in EmpIds :
        Commit([kind |-> "ChgHold", emp_id |-> emp_id], <<>>, {},
               ChangeEmployeeHoldTx(Db({}), emp_id))

ChgDirect ==
    \E emp_id \in EmpIds :
        Commit([kind |-> "ChgDirect", emp_id |-> emp_id, bank |-> "Bank",
                account |-> "Account"], <<>>, {},
               ChangeEmployeeDirectTx(Db({}), emp_id, "Bank", "Account"))

ChgMail ==
    \E emp_id \in EmpIds :
        Commit([kind |-> "ChgMail", emp_id |-> emp_id, address |-> "POBox"], <<>>, {},
               ChangeEmployeeMailTx(Db({}), emp_id, "POBox"))

ChgMember ==
    \E emp_id \in EmpIds, member_id \in MemberIds, dues \in Dues :
        Commit([kind |-> "ChgMember", emp_id |-> emp_id, member_id |-> member_id,
                dues |-> dues], <<>>, {},
               ChangeUnionMemberTx(Db({}), emp_id, member_id, dues))

ChgNoMember ==
    \E emp_id \in EmpIds :
        Commit([kind |-> "ChgNoMember", emp_id |-> emp_id], <<>>, {},
               ChangeUnaffiliatedTx(Db({}), emp_id))

Payday ==
    \E pay_date \in PayDates, order \in Orders(DOMAIN employees) :
        Commit([kind |-> "Payday", pay_date |-> pay_date], order, {},
               PaydayTx(Db({}), pay_date, order))

\* "let _ = tx.execute(&mut ctx);": the result is dropped and the loop of the
\* driver goes on to the next command; after a panic there is no next one
Discard ==
    /\ last.tx.kind # "none"
    /\ last.result.tag # "Panic"
    /\ focus # "driver"
    /\ last' = Idle
    /\ UNCHANGED <<employees, union_members, paychecks, script, txs, executed,
                   run_result, focus>>

Init ==
    /\ employees = EmptyMap
    /\ union_members = EmptyMap
    /\ paychecks = EmptyMap
    /\ last = Idle
    /\ script = <<>>
    /\ txs = <<>>
    /\ executed = <<>>
    /\ run_result = "none"
    /\ focus \in Focuses

Next ==
    \/ AddSalaryEmp
    \/ AddHourlyEmp
    \/ AddCommissionedEmp
    \/ DelEmp
    \/ TimeCard
    \/ SalesReceipt
    \/ ServiceCharge
    \/ ChgName
    \/ ChgAddress
    \/ ChgHourly
    \/ ChgSalaried
    \/ ChgCommissioned
    \/ ChgHold
    \/ ChgDirect
    \/ ChgMail
    \/ ChgMember
    \/ ChgNoMember
    \/ Payday
    \/ Discard

Spec == Init /\ [][Next]_vars

-----------------------------------------------------------------------------
(* The storage port: a PayrollDao whose record_paycheck may answer Err.    *)

\* a Payday over a port that cannot record the paychecks of faults
PaydayFailing ==
    \E pay_date \in PayDates, order \in Orders(DOMAIN employees),
       faults \in SUBSET (DOMAIN employees) \ {{}} :
        Commit([kind |-> "Payday", pay_date |-> pay_date], order, faults,
               PaydayTx(Db(faults), pay_date, order))

InitPort ==
    /\ employees = EmptyMap
    /\ union_members = EmptyMap
    /\ paychecks = EmptyMap
    /\ last = Idle
    /\ script = <<>>
    /\ txs = <<>>
    /\ executed = <<>>
    /\ run_result = "none"
    /\ focus = "port"

NextPort ==
    \/ AddSalaryEmp
    \/ AddHourlyEmp
    \/ Payday
    \/ PaydayFailing
    \/ Discard

SpecPort == InitPort /\ [][NextPort]_vars

-----------------------------------------------------------------------------
(* tx-app: TransactionApplication::run over a TextParserTransactionSource. *)

DriverCommands ==
    {[kind |-> "AddSalaryEmp", emp_id |-> 1, name |-> "Bob", address |-> "Home",
      salary |-> 1000],
     [kind |-> "AddHourlyEmp", emp_id |-> 2, name |-> "Bill", address |-> "Home",
      hourly_rate |-> 10],
     [kind |-> "TimeCard", emp_id |-> 1, date |-> 16, hours |-> 8],
     [kind |-> "TimeCard", emp_id |-> 2, date |-> 16, hours |-> 8],
     [kind |-> "DelEmp", emp_id |-> 1],
     [kind |-> "Payday", pay_date |-> 18]}

Scripts == UNION {[1..n -> DriverCommands] : n \in 0..MaxScript}

\* one turn of "while let Some(tx) = tx_source.get_transaction()": pop_front,
\* then "let _ = tx.execute(&mut ctx);".  A panic unwinds through run.
RunTx ==
    /\ focus = "driver"
    /\ run_result = "none"
    /\ last.result.tag # "Panic"
    /\ txs # <<>>
    /\ \E order \in (IF Head(txs).kind = "Payday" THEN Orders(DOMAIN employees)
                      ELSE {<<>>}) :
        /\ employees' = Transaction_execute(Db({}), Head(txs), order).w.employees
        /\ union_members' =
              Transaction_execute(Db({}), Head(txs), order).w.union_members
        /\ paychecks' = Transaction_execute(Db({}), Head(txs), order).w.paychecks
        /\ last' = Executed(Head(txs), order, {},
                            Transaction_execute(Db({}), Head(txs), order))
    /\ txs' = Tail(txs)
    /\ executed' = Append(executed, Head(txs))
    /\ UNCHANGED <<script, run_result, focus>>

\* get_transaction answers None and the loop asks again instead of ending
RunReturn_again ==
    /\ focus = "driver"
    /\ run_result = "none"
    /\ last.result.tag # "Panic"
    /\ txs = <<>>
    /\ UNCHANGED vars

\* get_transaction answers None: the loop ends and run returns Ok(())
RunReturn ==
    /\ focus = "driver"
    /\ run_result = "none"
    /\ last.result.tag # "Panic"
    /\ txs = <<>>
    /\ run_result' = "Ok"
    /\ UNCHANGED <<employees, union_members, paychecks, last, script, txs,
                   executed, focus>>

InitRun ==
    /\ employees = EmptyMap
    /\ union_members = EmptyMap
    /\ paychecks = EmptyMap
    /\ last = Idle
    /\ script \in Scripts
    /\ txs = script
    /\ executed = <<>>
    /\ run_result = "none"
    /\ focus = "driver"

NextRun ==
    \/ RunTx
    \/ RunReturn

SpecRun == InitRun /\ [][NextRun]_vars

\* run is one sequential loop with nothing to wait for: while it can take a
\* turn or return, it does
SpecRunFair == InitRun /\ [][NextRun]_vars /\ WF_vars(NextRun)

-----------------------------------------------------------------------------
(* The calculations of payroll-impl applied to arguments of their own: the *)
(* two functions of a schedule on every day up to MaxDay, calculate_pay    *)
(* and calculate_deductions on classifications and affiliations of up to   *)
(* MaxCards records and on the periods of three pay dates.  last keeps the *)
(* call (tx) and the value returned (result).                              *)

Schedules == {Monthly, Weekly, Biweekly}

\* Fri 2024-01-19, Fri 2024-01-26, Wed 2024-01-31
CalcPayDates == {18, 25, 30}

\* the periods of the pay dates of the three schedules among pay_dates
PeriodsOf(pay_dates) ==
    {calculate_period(x[1], x[2]) :
        x \in {y \in Schedules \X pay_dates : is_pay_date(y[1], y[2])}}

\* the days before, at and after the ends of the Weekly and Biweekly periods
CalcDates == {11, 12, 18, 19, 25, 26}

CalcHours == {6, 8, 10}

CalcAmounts == {200, 300}

SeqsUpTo(S, n) == UNION {[1..k -> S] : k \in 0..n}

\* the classifications of up to n records
ClassificationsOf(n) ==
    {Salaried(s) : s \in Salaries}
    \cup {Hourly(x[1], x[2]) :
             x \in HourlyRates
                   \X SeqsUpTo({TimeCard_new(y[1], y[2]) :
                                   y \in CalcDates \X CalcHours}, n)}
    \cup {Commissioned(x[1], x[2], x[3]) :
             x \in Salaries \X CommissionRates
                   \X SeqsUpTo({SalesReceipt_new(y[1], y[2]) :
                                   y \in CalcDates \X CalcAmounts}, n)}

\* the affiliations of up to n service charges
AffiliationsOf(n) ==
    {Unaffiliated}
    \cup {Union(x[1], x[2], x[3]) :
             x \in {7} \X Dues
                   \X SeqsUpTo({ServiceCharge_new(y[1], y[2]) :
                                   y \in CalcDates \X CalcAmounts}, n)}

\* the call made and the value it returned
Apply(call, value) ==
    /\ focus = "calc"
    /\ last.tx.kind = "none"
    /\ last' = [tx |-> call, result |-> value, calls |-> <<>>, order |-> <<>>,
                faults |-> {}, pre |-> Store]
    /\ UNCHANGED <<employees, union_members, paychecks, script, txs, executed,
                   run_result, focus>>

ApplyIsPayDate ==
    \E schedule \in Schedules, date \in 0..MaxDay :
        Apply([kind |-> "is_pay_date", schedule |-> schedule, date |-> date],
              is_pay_date(schedule, date))

ApplyCalculatePeriod ==
    \E schedule \in Schedules, payday \in 0..MaxDay :
        Apply([kind |-> "calculate_period", schedule |-> schedule,
               payday |-> payday],
              calculate_period(schedule, payday))

ApplyCalculatePay ==
    \E classification \in ClassificationsOf(MaxCards),
       period \in PeriodsOf(CalcPayDates) :
        Apply([kind |-> "calculate_pay", classification |-> classification,
               pc |-> Paycheck_new(period)],
              calculate_pay(classification, Paycheck_new(period)))

ApplyCalculateDeductions ==
    \E affiliation \in AffiliationsOf(MaxCards), period \in PeriodsOf(CalcPayDates) :
        Apply([kind |-> "calculate_deductions", affiliation |-> affiliation,
               pc |-> Paycheck_new(period)],
              calculate_deductions(affiliation, Paycheck_new(period)))

InitCalc ==
    /\ employees = EmptyMap
    /\ union_members = EmptyMap
    /\ paychecks = EmptyMap
    /\ last = Idle
    /\ script = <<>>
    /\ txs = <<>>
    /\ executed = <<>>
    /\ run_result = "none"
    /\ focus = "calc"

NextCalc ==
    \/ ApplyIsPayDate
    \/ ApplyCalculatePeriod
    \/ ApplyCalculatePay
    \/ ApplyCalculateDeductions

SpecCalc == InitCalc /\ [][NextCalc]_vars

-----------------------------------------------------------------------------
(* Properties.  They read the transaction executed last: its command, its  *)
(* result, the calls it made and the store it started from.                *)

ChgKinds ==
    {"ChgName", "ChgAddress", "ChgHourly", "ChgSalaried", "ChgCommissioned",
     "ChgHold", "ChgDirect", "ChgMail", "ChgMember", "ChgNoMember"}

AddKinds == {"AddSalaryEmp", "AddHourlyEmp", "AddCommissionedEmp"}

\* the positions of the calls of one name among the calls of the transaction
CallsNamed(name) == {i \in DOMAIN last.calls : last.calls[i][1] = name}

\* the calls of one name made for one employee
CallsFor(name, emp_id) == {i \in CallsNamed(name) : last.calls[i][2] = emp_id}

PaychecksOf(pcs, emp_id) == IF emp_id \in DOMAIN pcs THEN pcs[emp_id] ELSE <<>>

IsErr(r, usecase, cause) ==
    r.tag = "Err" /\ r.err = usecase /\ r.cause = cause

StoreUnchanged == Store = last.pre

\* the employee was due on the pay date of the Payday executed last
Due(emp_id) ==
    /\ emp_id \in DOMAIN last.pre.employees
    /\ is_pay_date(last.pre.employees[emp_id].schedule, last.tx.pay_date)

\* the paycheck the Payday executed last recorded for the employee
NewPaycheck(emp_id) == paychecks[emp_id][Len(paychecks[emp_id])]

\* the Payday executed last recorded n paychecks more for the employee
Recorded(emp_id, n) ==
    /\ Len(PaychecksOf(paychecks, emp_id))
          = Len(PaychecksOf(last.pre.paychecks, emp_id)) + n
    /\ SubSeq(PaychecksOf(paychecks, emp_id), 1,
              Len(PaychecksOf(last.pre.paychecks, emp_id)))
          = PaychecksOf(last.pre.paychecks, emp_id)

\* C1: a ChangeEmployeeTx for an employee the store does not hold fails with
\* NotFound, having called neither f nor update; one whose f returns an error
\* returns that error, having called no update; in both cases the store is
\* as it was.
C1_ChangeEmployeeFailures ==
    last.tx.kind \in ChgKinds =>
        /\ last.tx.emp_id \notin DOMAIN last.pre.employees =>
              /\ IsErr(last.result, "NotFound", "FetchError")
              /\ CallsNamed("f") = {}
              /\ CallsNamed("update") = {}
              /\ StoreUnchanged
        /\ \A i \in CallsNamed("f") :
              last.calls[i][3].tag = "Err" =>
                  /\ last.result = last.calls[i][3]
                  /\ CallsNamed("update") = {}
                  /\ StoreUnchanged

\* a ChgMember whose closure failed for an employee the store holds
C1_Witness ==
    /\ last.tx.kind = "ChgMember"
    /\ last.tx.emp_id \in DOMAIN last.pre.employees
    /\ \E i \in CallsNamed("f") : last.calls[i][3].tag = "Err"
    /\ IsErr(last.result, "AddUnionMemberFailed", "InsertError")

\* C2: a PaydayTx that succeeds has recorded exactly one paycheck more for
\* each employee whose schedule makes the date a pay date and none for any
\* other; when no employee is due it succeeds and the paychecks are as they
\* were.
C2_PaydayPaysTheDue ==
    last.tx.kind = "Payday" =>
        /\ last.result.tag = "Ok" =>
              \A e \in DOMAIN last.pre.employees \cup DOMAIN last.pre.paychecks
                       \cup DOMAIN paychecks :
                  Recorded(e, IF Due(e) THEN 1 ELSE 0)
        /\ (\A e \in DOMAIN last.pre.employees : ~Due(e)) =>
              /\ last.result.tag = "Ok"
              /\ paychecks = last.pre.paychecks

\* a Payday that paid one employee and left another, not due, without
C2_Witness ==
    /\ last.tx.kind = "Payday"
    /\ last.result.tag = "Ok"
    /\ \E e1, e2 \in DOMAIN last.pre.employees :
          /\ Due(e1) /\ Recorded(e1, 1)
          /\ ~Due(e2) /\ Recorded(e2, 0)

\* C3: every paycheck of the store has net_pay = gross_pay - deductions, and
\* the paycheck a PaydayTx records for an employee has the period of the
\* employee's schedule for the pay date, the gross pay of the employee's
\* classification and the deductions of the employee's affiliation.
C3_PaycheckFigures ==
    /\ \A e \in DOMAIN paychecks : \A i \in DOMAIN paychecks[e] :
          paychecks[e][i].net_pay
              = paychecks[e][i].gross_pay - paychecks[e][i].deductions
    /\ (last.tx.kind = "Payday" /\ last.result.tag = "Ok") =>
          \A e \in DOMAIN last.pre.employees :
              Due(e) =>
                  /\ NewPaycheck(e).period
                        = calculate_period(last.pre.employees[e].schedule,
                                           last.tx.pay_date)
                  /\ NewPaycheck(e).gross_pay
                        = calculate_pay(last.pre.employees[e].classification,
                                        NewPaycheck(e))
                  /\ NewPaycheck(e).deductions
                        = calculate_deductions(last.pre.employees[e].affiliation,
                                               NewPaycheck(e))

\* a Payday that paid a union member with pay to take the dues from
C3_Witness ==
    /\ last.tx.kind = "Payday"
    /\ last.result.tag = "Ok"
    /\ \E e \in DOMAIN last.pre.employees :
          /\ Due(e)
          /\ last.pre.employees[e].affiliation.tag = "Union"
          /\ NewPaycheck(e).gross_pay > 0
          /\ NewPaycheck(e).deductions > 0
          /\ NewPaycheck(e).net_pay < NewPaycheck(e).gross_pay

\* the positions, in the order of the run, of the due employees whose
\* paycheck the port cannot record
FailedAt ==
    {i \in DOMAIN last.order : Due(last.order[i]) /\ last.order[i] \in last.faults}

FirstFailedAt == CHOOSE i \in FailedAt : \A j \in FailedAt : i <= j

\* C4: when record_paycheck fails for an employee the PaydayTx stops there
\* and fails with UpdateEmployeeFailed: the employees after it in the run are
\* neither paid nor given a paycheck, those due before it keep the paycheck
\* the run recorded.
C4_PaydayStopsAtFailure ==
    (last.tx.kind = "Payday" /\ FailedAt # {}) =>
        /\ IsErr(last.result, "UpdateEmployeeFailed", "UpdateError")
        /\ last.calls[Len(last.calls)]
              = <<"record_paycheck", last.order[FirstFailedAt]>>
        /\ \A i \in DOMAIN last.order :
              /\ i < FirstFailedAt =>
                    Recorded(last.order[i], IF Due(last.order[i]) THEN 1 ELSE 0)
              /\ i >= FirstFailedAt => Recorded(last.order[i], 0)
              /\ i > FirstFailedAt =>
                    /\ CallsFor("pay", last.order[i]) = {}
                    /\ CallsFor("record_paycheck", last.order[i]) = {}

\* a Payday of three due employees that failed at the second
C4_Witness ==
    /\ last.tx.kind = "Payday"
    /\ Len(last.order) = 3
    /\ \A i \in DOMAIN last.order : Due(last.order[i])
    /\ FailedAt # {}
    /\ FirstFailedAt = 2
    /\ Recorded(last.order[1], 1)
    /\ Recorded(last.order[3], 0)
    /\ last.result.tag = "Err"

\* the employee a TimeCard or a SalesReceipt names is in the store with a
\* classification that does not take the record
WrongClassification ==
    /\ last.tx.kind \in {"TimeCard", "SalesReceipt"}
    /\ last.tx.emp_id \in DOMAIN last.pre.employees
    /\ last.pre.employees[last.tx.emp_id].classification.tag
          # (IF last.tx.kind = "TimeCard" THEN "Hourly" ELSE "Commissioned")

\* C5: a TimeCardTx for an employee who is not Hourly, and a SalesReceiptTx
\* for one who is not Commissioned, fail with the error
\* UnexpectedPaymentClassification, never with an abort, and leave the store
\* as it was.
C5_WrongClassificationIsAnError ==
    WrongClassification =>
        /\ last.result.tag = "Err"
        /\ last.result.err = "UnexpectedPaymentClassification"
        /\ StoreUnchanged

\* a TimeCard for a Salaried employee that panicked
C5_Panics ==
    /\ WrongClassification
    /\ last.tx.kind = "TimeCard"
    /\ last.pre.employees[last.tx.emp_id].classification.tag = "Salaried"
    /\ last.result.tag = "Panic"

\* the employee a ChgNoMember names is in the store and Unaffiliated
AlreadyUnaffiliated ==
    /\ last.tx.kind = "ChgNoMember"
    /\ last.tx.emp_id \in DOMAIN last.pre.employees
    /\ last.pre.employees[last.tx.emp_id].affiliation.tag = "Unaffiliated"

\* C6: a ChangeUnaffiliatedTx for an employee who is Unaffiliated fails with
\* the error UnexpectedAffiliation and changes nothing.
C6_UnaffiliatedIsAnError ==
    AlreadyUnaffiliated =>
        /\ last.result.tag = "Err"
        /\ last.result.err = "UnexpectedAffiliation"
        /\ StoreUnchanged

\* a ChgNoMember for an Unaffiliated employee that panicked
C6_Panics == AlreadyUnaffiliated /\ last.result.tag = "Panic"

\* the union index resolves the member of a ServiceCharge to an employee of
\* the store
ResolvedMember ==
    /\ last.tx.kind = "ServiceCharge"
    /\ last.tx.member_id \in DOMAIN last.pre.union_members
    /\ last.pre.union_members[last.tx.member_id] \in DOMAIN last.pre.employees

\* C7: a ServiceChargeTx fails with NotFound when the member id is not in
\* the union index or the index names an employee the store does not hold,
\* and with UnexpectedAffiliation when the employee it resolves to is not a
\* Union member; a ServiceChargeTx that fails changes nothing.
C7_ServiceChargeFailures ==
    last.tx.kind = "ServiceCharge" =>
        /\ last.tx.member_id \notin DOMAIN last.pre.union_members =>
              IsErr(last.result, "NotFound", "FetchError")
        /\ (/\ last.tx.member_id \in DOMAIN last.pre.union_members
            /\ last.pre.union_members[last.tx.member_id]
                  \notin DOMAIN last.pre.employees) =>
              IsErr(last.result, "NotFound", "FetchError")
        /\ (/\ ResolvedMember
            /\ last.pre.employees[last.pre.union_members[last.tx.member_id]]
                  .affiliation.tag # "Union") =>
              /\ last.result.tag = "Err"
              /\ last.result.err = "UnexpectedAffiliation"
        /\ last.result.tag # "Ok" => StoreUnchanged

\* a ServiceCharge that panicked: the index resolved its member to an
\* employee who is Unaffiliated
C7_Panics ==
    /\ ResolvedMember
    /\ last.pre.employees[last.pre.union_members[last.tx.member_id]]
          .affiliation.tag = "Unaffiliated"
    /\ last.result.tag = "Panic"

\* C8: TransactionApplication::run executes each transaction of the source
\* once, in the order of the source, goes on after a transaction that fails,
\* and returns success: the run never stops short of that.
C8_RunExecutesAll ==
    /\ executed \o txs = script
    /\ run_result = "Ok" => executed = script
    /\ run_result = "Ok" \/ ENABLED NextRun

\* a run that stopped at a panic with transactions left in the source
C8_Aborted ==
    /\ focus = "driver"
    /\ last.result.tag = "Panic"
    /\ txs # <<>>
    /\ run_result = "none"

\* C9: the union index is one-to-one: no two member ids name one employee.
C9_IndexOneToOne ==
    \A m1, m2 \in DOMAIN union_members :
        union_members[m1] = union_members[m2] => m1 = m2

\* an index of two members, the second put by a ChgMember that succeeded
C9_Witness ==
    /\ Cardinality(DOMAIN union_members) = 2
    /\ last.tx.kind = "ChgMember"
    /\ last.result.tag = "Ok"

\* the classification and the schedule an Add command asks for
AskedClassification(cmd) ==
    CASE cmd.kind = "AddSalaryEmp" -> Salaried(cmd.salary)
      [] cmd.kind = "AddHourlyEmp" -> Hourly(cmd.hourly_rate, <<>>)
      [] cmd.kind = "AddCommissionedEmp" ->
            Commissioned(cmd.salary, cmd.commission_rate, <<>>)

AskedSchedule(cmd) ==
    CASE cmd.kind = "AddSalaryEmp" -> Monthly
      [] cmd.kind = "AddHourlyEmp" -> Weekly
      [] cmd.kind = "AddCommissionedEmp" -> Biweekly

\* C10: an Add transaction for an emp_id the store does not hold succeeds
\* and returns the emp_id, and a fetch of that emp_id then yields the name
\* and the address asked for, the classification of the kind with its
\* parameters and no record, the schedule of the kind, the method Hold and
\* the affiliation Unaffiliated.
C10_AddStoresTheEmployee ==
    (last.tx.kind \in AddKinds /\ last.tx.emp_id \notin DOMAIN last.pre.employees) =>
        /\ last.result.tag = "Ok"
        /\ last.result.val = last.tx.emp_id
        /\ fetch(Db({}), last.tx.emp_id).r.tag = "Ok"
        /\ fetch(Db({}), last.tx.emp_id).r.val
              = Employee(last.tx.emp_id, last.tx.name, last.tx.address,
                         AskedClassification(last.tx), AskedSchedule(last.tx),
                         Hold, Unaffiliated)

\* an AddCommissionedEmp that succeeded beside an employee already there
C10_Witness ==
    /\ last.tx.kind = "AddCommissionedEmp"
    /\ last.result.tag = "Ok"
    /\ last.pre.employees # EmptyMap
    /\ last.tx.emp_id \in DOMAIN employees

\* the employee an Add command names is in the store already
AlreadyStored ==
    /\ last.tx.kind \in AddKinds
    /\ last.tx.emp_id \in DOMAIN last.pre.employees

\* C11: an Add transaction for an emp_id the store holds already fails with
\* RegisterEmployeeFailed, and the store, the record of that employee
\* included, is as it was.
C11_AddOfStoredIdFails ==
    AlreadyStored =>
        /\ IsErr(last.result, "RegisterEmployeeFailed", "InsertError")
        /\ employees[last.tx.emp_id] = last.pre.employees[last.tx.emp_id]
        /\ StoreUnchanged

\* an Add of another kind for the id of an employee who has a record
C11_Witness ==
    /\ AlreadyStored
    /\ last.tx.kind = "AddSalaryEmp"
    /\ last.pre.employees[last.tx.emp_id].classification.tag = "Hourly"
    /\ last.pre.employees[last.tx.emp_id].classification.timecards # <<>>
    /\ last.result.tag = "Err"

\* C12: when a ChangeUnionMemberTx succeeds the union index maps its
\* member_id to its emp_id and the stored affiliation of the employee is
\* Union with that member_id, those dues and no service charge.
C12_ChgMemberJoins ==
    (last.tx.kind = "ChgMember" /\ last.result.tag = "Ok") =>
        /\ last.tx.member_id \in DOMAIN union_members
        /\ union_members[last.tx.member_id] = last.tx.emp_id
        /\ last.tx.emp_id \in DOMAIN employees
        /\ employees[last.tx.emp_id].affiliation
              = Union(last.tx.member_id, last.tx.dues, <<>>)

\* a ChgMember that succeeded beside a member already in the index
C12_Witness ==
    /\ last.tx.kind = "ChgMember"
    /\ last.result.tag = "Ok"
    /\ last.pre.union_members # EmptyMap
    /\ last.pre.employees[last.tx.emp_id].affiliation.tag = "Unaffiliated"

\* the member id of a ChgMember is a key of the index, or its employee is
\* the target of an entry of the index
MemberOrEmployeeTaken ==
    /\ last.tx.kind = "ChgMember"
    /\ last.tx.emp_id \in DOMAIN last.pre.employees
    /\ \/ last.tx.member_id \in DOMAIN last.pre.union_members
       \/ \E m \in DOMAIN last.pre.union_members :
             last.pre.union_members[m] = last.tx.emp_id

\* C13: a ChangeUnionMemberTx for a stored employee fails with
\* AddUnionMemberFailed when its member_id is a key of the union index or
\* its emp_id is the target of an entry; the index and the stored employee
\* (affiliation, dues, service charges) are then as they were.
C13_ChgMemberTakenFails ==
    MemberOrEmployeeTaken =>
        /\ IsErr(last.result, "AddUnionMemberFailed", "InsertError")
        /\ union_members = last.pre.union_members
        /\ employees[last.tx.emp_id] = last.pre.employees[last.tx.emp_id]
        /\ StoreUnchanged

\* a ChgMember with a new member id and new dues for a union member, refused
C13_Witness ==
    /\ MemberOrEmployeeTaken
    /\ last.pre.employees[last.tx.emp_id].affiliation.tag = "Union"
    /\ last.pre.employees[last.tx.emp_id].affiliation.member_id # last.tx.member_id
    /\ last.tx.member_id \notin DOMAIN last.pre.union_members
    /\ last.result.tag = "Err"

\* a ChgNoMember that succeeded for a Union employee
LeftUnion ==
    /\ last.tx.kind = "ChgNoMember"
    /\ last.result.tag = "Ok"
    /\ last.tx.emp_id \in DOMAIN last.pre.employees
    /\ last.pre.employees[last.tx.emp_id].affiliation.tag = "Union"

\* C14: when a ChangeUnaffiliatedTx succeeds for an employee who is Union
\* with member id m, m is no key of the union index any more, the stored
\* affiliation is Unaffiliated (the service charges are gone with the
\* Union), and the index has lost the entry of m and no other.
C14_ChgNoMemberLeaves ==
    LeftUnion =>
        /\ last.pre.employees[last.tx.emp_id].affiliation.member_id
              \notin DOMAIN union_members
        /\ employees[last.tx.emp_id].affiliation = Unaffiliated
        /\ union_members
              = Remove(last.pre.union_members,
                       last.pre.employees[last.tx.emp_id].affiliation.member_id)
        /\ last.pre.employees[last.tx.emp_id].affiliation.member_id
              \in DOMAIN last.pre.union_members

\* a member with a service charge left the union, another member stayed
C14_Witness ==
    /\ LeftUnion
    /\ last.pre.employees[last.tx.emp_id].affiliation.service_charges # <<>>
    /\ Cardinality(DOMAIN last.pre.union_members) = 2
    /\ Cardinality(DOMAIN union_members) = 1

\* the schedule every constructor of employees pairs with a classification
PairedSchedule(classification) ==
    CASE classification.tag = "Salaried" -> Monthly
      [] classification.tag = "Hourly" -> Weekly
      [] classification.tag = "Commissioned" -> Biweekly

\* C15: every stored employee has the schedule of its classification:
\* Salaried with Monthly, Hourly with Weekly, Commissioned with Biweekly.
C15_ClassificationPairsSchedule ==
    \A e \in DOMAIN employees :
        /\ employees[e].classification.tag \in {"Salaried", "Hourly", "Commissioned"}
        /\ employees[e].schedule = PairedSchedule(employees[e].classification)

ChgClassKinds == {"ChgSalaried", "ChgHourly", "ChgCommissioned"}

\* a change of classification succeeded
Reclassified ==
    /\ last.tx.kind \in ChgClassKinds
    /\ last.result.tag = "Ok"

\* an Hourly or Commissioned employee was made Salaried
C15_Witness ==
    /\ Reclassified
    /\ last.tx.kind = "ChgSalaried"
    /\ last.pre.employees[last.tx.emp_id].schedule # Monthly
    /\ employees[last.tx.emp_id].schedule = Monthly

\* the classification a change of classification asks for
ChangedClassification(cmd) ==
    CASE cmd.kind = "ChgSalaried" -> Salaried(cmd.salary)
      [] cmd.kind = "ChgHourly" -> Hourly(cmd.hourly_rate, <<>>)
      [] cmd.kind = "ChgCommissioned" ->
            Commissioned(cmd.salary, cmd.commission_rate, <<>>)

\* C16: after a ChgSalaried, ChgHourly or ChgCommissioned that succeeded the
\* stored classification is the one asked for with an empty list of
\* records, whatever the employee had before, records of the same kind
\* included.
C16_ReclassifiedHasNoRecord ==
    Reclassified =>
        /\ employees[last.tx.emp_id].classification = ChangedClassification(last.tx)
        /\ employees[last.tx.emp_id].classification.tag = "Hourly"
              => employees[last.tx.emp_id].classification.timecards = <<>>
        /\ employees[last.tx.emp_id].classification.tag = "Commissioned"
              => employees[last.tx.emp_id].classification.sales_receipts = <<>>

\* an Hourly employee with a timecard was made Hourly again
C16_Witness ==
    /\ Reclassified
    /\ last.tx.kind = "ChgHourly"
    /\ last.pre.employees[last.tx.emp_id].classification.tag = "Hourly"
    /\ last.pre.employees[last.tx.emp_id].classification.timecards # <<>>

\* a ChangeEmployeeName succeeded
Renamed ==
    /\ last.tx.kind = "ChgName"
    /\ last.result.tag = "Ok"

\* the same ChangeEmployeeName, executed in the present store
RenamedAgain == ChangeEmployeeNameTx(Db({}), last.tx.emp_id, last.tx.name)

\* C17: after a ChangeEmployeeName(id, X) that succeeded a fetch of id
\* yields an employee named X, and the same transaction executed a second
\* time succeeds and leaves the store as the first left it.
C17_RenameIsIdempotent ==
    Renamed =>
        /\ fetch(Db({}), last.tx.emp_id).r.tag = "Ok"
        /\ fetch(Db({}), last.tx.emp_id).r.val.name = last.tx.name
        /\ RenamedAgain.r.tag = "Ok"
        /\ RenamedAgain.w.employees = employees
        /\ RenamedAgain.w.union_members = union_members
        /\ RenamedAgain.w.paychecks = paychecks

\* an employee got a name other than the one it had
C17_Witness ==
    /\ Renamed
    /\ last.pre.employees[last.tx.emp_id].name # last.tx.name
    /\ employees[last.tx.emp_id].name = last.tx.name

\* the fields of an employee a kind of Change transaction may change
Facet(kind) ==
    CASE kind = "ChgName" -> {"name"}
      [] kind = "ChgAddress" -> {"address"}
      [] kind \in ChgClassKinds -> {"classification", "schedule"}
      [] kind \in {"ChgHold", "ChgDirect", "ChgMail"} -> {"method"}
      [] kind \in {"ChgMember", "ChgNoMember"} -> {"affiliation"}

EmployeeFields ==
    {"emp_id", "name", "address", "classification", "schedule", "method",
     "affiliation"}

\* C18: a Change transaction changes nothing but its facet of its employee:
\* the name, the address, the method, the classification with the schedule,
\* or the affiliation with the union index; the other fields of the
\* employee, the other employees and the paychecks are as they were.
C18_ChangeKeepsTheRest ==
    last.tx.kind \in ChgKinds =>
        /\ DOMAIN employees = DOMAIN last.pre.employees
        /\ \A e \in DOMAIN employees :
              \A fld \in EmployeeFields :
                 (e # last.tx.emp_id \/ fld \notin Facet(last.tx.kind))
                    => employees[e][fld] = last.pre.employees[e][fld]
        /\ paychecks = last.pre.paychecks
        /\ last.tx.kind \notin {"ChgMember", "ChgNoMember"}
              => union_members = last.pre.union_members

\* a change of method beside another employee and a recorded paycheck
C18_Witness ==
    /\ last.tx.kind = "ChgMail"
    /\ last.result.tag = "Ok"
    /\ employees[last.tx.emp_id].method # last.pre.employees[last.tx.emp_id].method
    /\ Cardinality(DOMAIN employees) = 2
    /\ PaycheckCount(paychecks) > 0

\* the transactions that begin with a fetch of the emp_id of their command
FetchingKinds == ChgKinds \cup {"TimeCard", "SalesReceipt"}

\* C19: DeleteEmployee of a stored id succeeds and removes that record and
\* nothing else, and a fetch of the id then fails with FetchError;
\* DeleteEmployee of an id not stored fails with UnregisterEmployeeFailed
\* and changes nothing; a Change, TimeCard or SalesReceipt transaction for
\* an id not stored fails with NotFound.
C19_DeleteRemovesTheRecord ==
    /\ (last.tx.kind = "DelEmp" /\ last.tx.emp_id \in DOMAIN last.pre.employees) =>
          /\ last.result = Ok(<<>>)
          /\ employees = Remove(last.pre.employees, last.tx.emp_id)
          /\ paychecks = last.pre.paychecks
          /\ fetch(Db({}), last.tx.emp_id).r = DaoError("FetchError")
    /\ (last.tx.kind = "DelEmp" /\ last.tx.emp_id \notin DOMAIN last.pre.employees) =>
          /\ IsErr(last.result, "UnregisterEmployeeFailed", "DeleteError")
          /\ StoreUnchanged
    /\ (last.tx.kind \in FetchingKinds
           /\ last.tx.emp_id \notin DOMAIN last.pre.employees) =>
          /\ IsErr(last.result, "NotFound", "FetchError")
          /\ StoreUnchanged

\* one of two stored employees was deleted
C19_Witness ==
    /\ last.tx.kind = "DelEmp"
    /\ last.result.tag = "Ok"
    /\ Cardinality(DOMAIN last.pre.employees) = 2
    /\ DOMAIN employees = DOMAIN last.pre.employees \ {last.tx.emp_id}

\* a Union employee was deleted
DeletedMember ==
    /\ last.tx.kind = "DelEmp"
    /\ last.result.tag = "Ok"
    /\ last.pre.employees[last.tx.emp_id].affiliation.tag = "Union"

\* C20: DeleteEmployee leaves the union index as it was: after the delete of
\* an employee who is Union with member id m the index still maps m to the
\* deleted id.
C20_DeleteKeepsTheIndex ==
    /\ last.tx.kind = "DelEmp" => union_members = last.pre.union_members
    /\ DeletedMember =>
          /\ last.pre.employees[last.tx.emp_id].affiliation.member_id
                \in DOMAIN union_members
          /\ union_members[last.pre.employees[last.tx.emp_id].affiliation.member_id]
                = last.tx.emp_id
          /\ last.tx.emp_id \notin DOMAIN employees

\* the index holds an entry for an employee the store holds no more
C20_Witness ==
    /\ DeletedMember
    /\ \E m \in DOMAIN union_members :
          /\ union_members[m] = last.tx.emp_id
          /\ union_members[m] \notin DOMAIN employees

\* every list of paychecks is kept as the beginning of the list of the same
\* emp_id in the next state, and a list that is new holds one paycheck
PaychecksGrow ==
    /\ \A e \in DOMAIN paychecks :
          /\ e \in DOMAIN paychecks'
          /\ Len(paychecks'[e]) >= Len(paychecks[e])
          /\ SubSeq(paychecks'[e], 1, Len(paychecks[e])) = paychecks[e]
    /\ \A e \in DOMAIN paychecks' \ DOMAIN paychecks : Len(paychecks'[e]) = 1

\* C21: the paychecks recorded for an emp_id only grow at the end: no
\* transaction removes, reorders or alters a recorded paycheck, and
\* record_paycheck makes the list of an emp_id that has none.
C21_PaychecksAppendOnly == [][PaychecksGrow]_vars

\* a second Payday appended a paycheck of another period to a list of one
C21_Witness ==
    /\ last.tx.kind = "Payday"
    /\ \E e \in DOMAIN last.pre.paychecks :
          /\ Len(last.pre.paychecks[e]) = 1
          /\ Len(paychecks[e]) = 2
          /\ paychecks[e][1] = last.pre.paychecks[e][1]
          /\ paychecks[e][2] # paychecks[e][1]

\* d is a Biweekly pay date whose period of 14 days holds the date
InBiweeklyPeriodOf(d, date) ==
    /\ weekday(d) = Fri
    /\ iso_week(d) % 2 = 0
    /\ d - 13 <= date
    /\ date <= d

\* the paycheck of the round trip: salary s, rate r, one receipt of amount a
RoundTripPaycheck(d, s, r, a) ==
    [period |-> Range(d - 13, d), gross_pay |-> s + (a * r) \div 100,
     deductions |-> 0, net_pay |-> s + (a * r) \div 100]

\* the paycheck recorded last for emp_id is pc
RecordedLast(pcs, emp_id, pc) ==
    /\ emp_id \in DOMAIN pcs
    /\ pcs[emp_id] # <<>>
    /\ pcs[emp_id][Len(pcs[emp_id])] = pc

\* a SalesReceipt was posted for an unaffiliated Commissioned employee who
\* had no receipt
PostedFirstReceipt ==
    /\ last.tx.kind = "SalesReceipt"
    /\ last.result.tag = "Ok"
    /\ last.pre.employees[last.tx.emp_id].classification.tag = "Commissioned"
    /\ last.pre.employees[last.tx.emp_id].classification.sales_receipts = <<>>
    /\ last.pre.employees[last.tx.emp_id].affiliation = Unaffiliated

\* a Payday was executed for an unaffiliated Commissioned employee with one
\* receipt, dated in the Biweekly period of the pay date
PaidAfterOneReceipt(e) ==
    /\ last.tx.kind = "Payday"
    /\ e \in DOMAIN last.pre.employees
    /\ last.pre.employees[e].classification.tag = "Commissioned"
    /\ Len(last.pre.employees[e].classification.sales_receipts) = 1
    /\ last.pre.employees[e].affiliation = Unaffiliated
    /\ InBiweeklyPeriodOf(last.tx.pay_date,
           last.pre.employees[e].classification.sales_receipts[1].date)

\* C22: a record a transaction posted is seen by a later payday: after
\* AddCommissionedEmployee(s, r), one SalesReceipt of amount a dated in the
\* period of a Biweekly pay date d, and PaydayTx(d), the paycheck recorded
\* for the employee has gross_pay = s + a * r, deductions = 0 and
\* net_pay = gross_pay.
C22_ReceiptSeenByPayday ==
    /\ PostedFirstReceipt =>
          \A d \in PayDates, order \in Orders(DOMAIN employees) :
             InBiweeklyPeriodOf(d, last.tx.date) =>
                /\ PaydayTx(Db({}), d, order).r.tag = "Ok"
                /\ RecordedLast(PaydayTx(Db({}), d, order).w.paychecks,
                      last.tx.emp_id,
                      RoundTripPaycheck(d,
                         last.pre.employees[last.tx.emp_id].classification.salary,
                         last.pre.employees[last.tx.emp_id].classification.commission_rate,
                         last.tx.amount))
    /\ \A e \in DOMAIN last.pre.employees :
          PaidAfterOneReceipt(e) =>
             /\ last.result.tag = "Ok"
             /\ RecordedLast(paychecks, e,
                   RoundTripPaycheck(last.tx.pay_date,
                      last.pre.employees[e].classification.salary,
                      last.pre.employees[e].classification.commission_rate,
                      last.pre.employees[e].classification.sales_receipts[1].amount))

\* the payday of the round trip: 1000 + 200 * 0.25 for one receipt
C22_Witness ==
    \E e \in DOMAIN last.pre.employees :
       /\ PaidAfterOneReceipt(e)
       /\ RecordedLast(paychecks, e,
             [period |-> Range(12, 25), gross_pay |-> 1050, deductions |-> 0,
              net_pay |-> 1050])

\* d is the last day of its month by the calendar
LastDayOfMonth(d) == day(d) = DaysInMonth(year(d), month(d))

\* the first day of the month of d
FirstOfMonth(d) ==
    CHOOSE s \in (d - 30)..d :
        day(s) = 1 /\ month(s) = month(d) /\ year(s) = year(d)

\* C23: Monthly is_pay_date(d) is true exactly when d is the last day of its
\* month (the next day is in another month), and the period of a pay date
\* runs from the first day of that month to the pay date, both included.
C23_Monthly ==
    /\ (last.tx.kind = "is_pay_date" /\ last.tx.schedule = Monthly) =>
          /\ last.result <=> LastDayOfMonth(last.tx.date)
          /\ last.result <=> month(last.tx.date + 1) # month(last.tx.date)
    /\ (last.tx.kind = "calculate_period" /\ last.tx.schedule = Monthly
           /\ LastDayOfMonth(last.tx.payday)) =>
          last.result = Range(FirstOfMonth(last.tx.payday), last.tx.payday)

\* the period of 2024-02-29: from 2024-02-01 on
C23_Witness ==
    /\ last.tx.kind = "calculate_period"
    /\ last.tx.schedule = Monthly
    /\ last.tx.payday = 59
    /\ Ymd(59) = [year |-> 2024, month |-> 2, day |-> 29]
    /\ last.result = Range(31, 59)

\* d is a Friday: a whole number of weeks from Friday 2024-01-05
IsFriday(d) == (d - 4) % 7 = 0

\* C24: Weekly is_pay_date(d) is true exactly when d is a Friday, and the
\* period of a pay date is the 7 days from 6 days before it to it, both
\* included.
C24_Weekly ==
    /\ (last.tx.kind = "is_pay_date" /\ last.tx.schedule = Weekly) =>
          (last.result <=> IsFriday(last.tx.date))
    /\ (last.tx.kind = "calculate_period" /\ last.tx.schedule = Weekly
           /\ IsFriday(last.tx.payday)) =>
          /\ last.result = Range(last.tx.payday - 6, last.tx.payday)
          /\ Cardinality({d \in (last.tx.payday - 20)..(last.tx.payday + 20) :
                             contains(last.result, d)}) = 7

\* the period of Friday 2024-01-19
C24_Witness ==
    /\ last.tx.kind = "calculate_period"
    /\ last.tx.schedule = Weekly
    /\ last.tx.payday = 18
    /\ last.result = Range(12, 18)

RECURSIVE YearStart(_)
\* the day number of the first of January of year y
YearStart(y) == IF y = 2024 THEN 0 ELSE YearStart(y - 1) + DaysInYear(y - 1)

\* the Monday of ISO week 1 of year y: the week that holds the 4th of January
WeekOneMonday(y) == (YearStart(y) + 3) - ((YearStart(y) + 3) % 7)

\* the ISO week number of d: weeks from week 1 of the year of its Thursday
IsoWeekNumber(d) == ((d - WeekOneMonday(year(d - (d % 7) + 3))) \div 7) + 1

\* C25: Biweekly is_pay_date(d) is true exactly when d is a Friday whose ISO
\* week number is even, and the period of a pay date is the 14 days from
\* 13 days before it to it, both included.
C25_Biweekly ==
    /\ (last.tx.kind = "is_pay_date" /\ last.tx.schedule = Biweekly) =>
          (last.result <=>
              (IsFriday(last.tx.date) /\ IsoWeekNumber(last.tx.date) % 2 = 0))
    /\ (last.tx.kind = "calculate_period" /\ last.tx.schedule = Biweekly
           /\ IsFriday(last.tx.payday) /\ IsoWeekNumber(last.tx.payday) % 2 = 0) =>
          /\ last.result = Range(last.tx.payday - 13, last.tx.payday)
          /\ Cardinality({d \in (last.tx.payday - 20)..(last.tx.payday + 20) :
                             contains(last.result, d)}) = 14

\* Friday 2027-01-01 is in ISO week 53 of 2026: no pay date
C25_Witness ==
    /\ last.tx.kind = "is_pay_date"
    /\ last.tx.schedule = Biweekly
    /\ last.tx.date = 1096
    /\ IsFriday(1096)
    /\ IsoWeekNumber(1096) = 53
    /\ last.result = FALSE

Min(a, b) == IF a <= b THEN a ELSE b

\* the positions of the records of a list dated in a period
InPeriod(records, period) ==
    {i \in DOMAIN records :
        period.start <= records[i].date /\ records[i].date <= period.end}

\* C26: the gross pay of an Hourly classification is the sum, over the
\* timecards dated in the period and no other, of
\* min(hours, 8) * rate + max(hours - 8, 0) * rate * 1.5; it is 0 when no
\* timecard is dated in the period.
C26_HourlyPay ==
    (last.tx.kind = "calculate_pay" /\ last.tx.classification.tag = "Hourly") =>
        /\ last.result =
              SumOver(InPeriod(last.tx.classification.timecards, last.tx.pc.period),
                 [i \in DOMAIN last.tx.classification.timecards |->
                    Min(last.tx.classification.timecards[i].hours, 8)
                       * last.tx.classification.hourly_rate
                    + (Max(last.tx.classification.timecards[i].hours - 8, 0)
                          * last.tx.classification.hourly_rate * 3) \div 2])
        /\ InPeriod(last.tx.classification.timecards, last.tx.pc.period) = {}
              => last.result = 0

\* 10 hours in the period at rate 10 and a timecard the day after the period
C26_Witness ==
    /\ last.tx.kind = "calculate_pay"
    /\ last.tx.classification
          = Hourly(10, <<TimeCard_new(19, 8), TimeCard_new(18, 10)>>)
    /\ last.tx.pc.period = Range(12, 18)
    /\ last.result = 110

\* C27: the gross pay of a Commissioned classification is the salary plus
\* the sum, over the sales receipts dated in the period and no other, of
\* amount * commission_rate; that of a Salaried one is the salary whatever
\* the period.
C27_CommissionedAndSalariedPay ==
    /\ (last.tx.kind = "calculate_pay"
           /\ last.tx.classification.tag = "Commissioned") =>
          last.result =
             last.tx.classification.salary
             + SumOver(InPeriod(last.tx.classification.sales_receipts,
                                last.tx.pc.period),
                  [i \in DOMAIN last.tx.classification.sales_receipts |->
                     (last.tx.classification.sales_receipts[i].amount
                         * last.tx.classification.commission_rate) \div 100])
    /\ (last.tx.kind = "calculate_pay"
           /\ last.tx.classification.tag = "Salaried") =>
          last.result = last.tx.classification.salary

\* a receipt on the first day of the period and one the day before it
C27_Witness ==
    /\ last.tx.kind = "calculate_pay"
    /\ last.tx.classification
          = Commissioned(1000, 25,
               <<SalesReceipt_new(11, 300), SalesReceipt_new(12, 200)>>)
    /\ last.tx.pc.period = Range(12, 25)
    /\ last.result = 1050

\* C28: the deductions of a Union affiliation are the dues times the number
\* of Fridays of the period, its two ends included, plus the sum of the
\* service charges dated in the period; those of Unaffiliated are 0.
C28_Deductions ==
    /\ (last.tx.kind = "calculate_deductions"
           /\ last.tx.affiliation.tag = "Union") =>
          last.result =
             last.tx.affiliation.dues
                * Cardinality({d \in last.tx.pc.period.start..last.tx.pc.period.end :
                                  IsFriday(d)})
             + SumOver(InPeriod(last.tx.affiliation.service_charges,
                                last.tx.pc.period),
                  [i \in DOMAIN last.tx.affiliation.service_charges |->
                     last.tx.affiliation.service_charges[i].amount])
    /\ (last.tx.kind = "calculate_deductions"
           /\ last.tx.affiliation.tag = "Unaffiliated") =>
          last.result = 0

\* two Fridays, the pay date one of them, and one of two charges in the period
C28_Witness ==
    /\ last.tx.kind = "calculate_deductions"
    /\ last.tx.affiliation
          = Union(7, 5, <<ServiceCharge_new(25, 200), ServiceCharge_new(26, 300)>>)
    /\ last.tx.pc.period = Range(12, 25)
    /\ last.result = 210

\* a TimeCard, SalesReceipt or ServiceCharge transaction succeeded
Posted(kind) ==
    /\ last.tx.kind = kind
    /\ last.result.tag = "Ok"

\* the employee a ServiceCharge is posted to: the one the index gives
ChargedEmployee == last.pre.union_members[last.tx.member_id]

\* C29: a TimeCardTx, SalesReceiptTx or ServiceChargeTx that succeeded
\* leaves the stored list as the list it found with the one new record
\* appended at the end: the earlier records keep their order, a record equal
\* to an earlier one is appended all the same, and the dates are not sorted.
C29_PostAppendsOne ==
    /\ Posted("TimeCard") =>
          employees[last.tx.emp_id].classification.timecards
             = Append(last.pre.employees[last.tx.emp_id].classification.timecards,
                      TimeCard_new(last.tx.date, last.tx.hours))
    /\ Posted("SalesReceipt") =>
          employees[last.tx.emp_id].classification.sales_receipts
             = Append(last.pre.employees[last.tx.emp_id].classification.sales_receipts,
                      SalesReceipt_new(last.tx.date, last.tx.amount))
    /\ Posted("ServiceCharge") =>
          employees[ChargedEmployee].affiliation.service_charges
             = Append(last.pre.employees[ChargedEmployee].affiliation.service_charges,
                      ServiceCharge_new(last.tx.date, last.tx.amount))

\* a timecard equal to the one before it, after a timecard of a later date
C29_Witness ==
    /\ Posted("TimeCard")
    /\ Len(employees[last.tx.emp_id].classification.timecards) = 3
    /\ employees[last.tx.emp_id].classification.timecards[3]
          = employees[last.tx.emp_id].classification.timecards[2]
    /\ employees[last.tx.emp_id].classification.timecards[1].date
          > employees[last.tx.emp_id].classification.timecards[2].date

\* the paycheck of an employee for the pay date of the Payday executed last,
\* with its three amounts
FinalPaycheck(emp) ==
    [period |-> calculate_period(emp.schedule, last.tx.pay_date),
     gross_pay |->
        calculate_pay(emp.classification,
            Paycheck_new(calculate_period(emp.schedule, last.tx.pay_date))),
     deductions |->
        calculate_deductions(emp.affiliation,
            Paycheck_new(calculate_period(emp.schedule, last.tx.pay_date))),
     net_pay |->
        calculate_pay(emp.classification,
            Paycheck_new(calculate_period(emp.schedule, last.tx.pay_date)))
        - calculate_deductions(emp.affiliation,
            Paycheck_new(calculate_period(emp.schedule, last.tx.pay_date)))]

\* C30: in a PaydayTx method.pay is called once for each employee the run
\* pays and for no other, with the paycheck whose gross_pay, deductions and
\* net_pay are final, and before record_paycheck for that employee; so the
\* employee whose record_paycheck fails has been disbursed and has no
\* paycheck recorded.
C30_PaidOnceBeforeRecorded ==
    last.tx.kind = "Payday" =>
        /\ \A e \in DOMAIN last.pre.employees :
              /\ Cardinality(CallsFor("pay", e)) <= 1
              /\ ~Due(e) => CallsFor("pay", e) = {}
              /\ (Due(e) /\ last.result.tag = "Ok") =>
                    Cardinality(CallsFor("pay", e)) = 1
              /\ \A i \in CallsFor("pay", e) :
                    /\ last.calls[i][4] = FinalPaycheck(last.pre.employees[e])
                    /\ last.calls[i][3] = last.pre.employees[e].method
                    /\ i < Len(last.calls)
                    /\ last.calls[i + 1] = <<"record_paycheck", e>>
                    /\ e \notin last.faults =>
                          /\ Recorded(e, 1)
                          /\ NewPaycheck(e) = last.calls[i][4]
              /\ \A j \in CallsFor("record_paycheck", e) :
                    /\ j > 1
                    /\ j - 1 \in CallsFor("pay", e)
        /\ FailedAt # {} =>
              /\ Cardinality(CallsFor("pay", last.order[FirstFailedAt])) = 1
              /\ Recorded(last.order[FirstFailedAt], 0)

\* the second of two due employees was disbursed 1000 and has no paycheck
C30_Witness ==
    /\ last.tx.kind = "Payday"
    /\ FailedAt # {}
    /\ FirstFailedAt = 2
    /\ last.result.tag = "Err"
    /\ \E i \in CallsFor("pay", last.order[2]) : last.calls[i][4].net_pay = 1000
    /\ Recorded(last.order[1], 1)
    /\ PaychecksOf(paychecks, last.order[2]) = <<>>

\* C31: every stored employee whose affiliation is Union(m) has the index
\* entry m, and that entry names the employee's own id.
C31_UnionMemberIsIndexed ==
    \A e \in DOMAIN employees :
        employees[e].affiliation.tag = "Union" =>
            /\ employees[e].affiliation.member_id \in DOMAIN union_members
            /\ union_members[employees[e].affiliation.member_id] = e

\* a union member joined by ChgMember is indexed, next to a stale entry of
\* an employee that is no longer stored
C31_Witness ==
    /\ last.tx.kind = "ChgMember"
    /\ last.result.tag = "Ok"
    /\ employees[last.tx.emp_id].affiliation.tag = "Union"
    /\ union_members[employees[last.tx.emp_id].affiliation.member_id]
          = last.tx.emp_id
    /\ \E m \in DOMAIN union_members : union_members[m] \notin DOMAIN employees

\* the index entries that name no stored employee whose affiliation is
\* Union with that member id
StaleEntries(emps, members) ==
    {m \in DOMAIN members :
        \/ members[m] \notin DOMAIN emps
        \/ emps[members[m]].affiliation.tag # "Union"
        \/ emps[members[m]].affiliation.member_id # m}

\* the step is a ChangeUnionMember that uses member id m
UsesMember(m) ==
    /\ last'.tx.kind = "ChgMember"
    /\ last'.tx.member_id = m

\* the step is a ChangeUnionMember on the stored employee the entry m names
TargetsReAdded(m) ==
    /\ last'.tx.kind = "ChgMember"
    /\ last'.tx.emp_id = union_members[m]
    /\ last'.tx.emp_id \in DOMAIN employees

\* C32 as stated: a stale entry of the union index stays, and every
\* ChangeUnionMember that uses its member id, and every ChangeUnionMember on
\* an employee re-added under the id it names, fails with
\* AddUnionMemberFailed.
C32_StaleEntryRefusesAll ==
    [][\A m \in StaleEntries(employees, union_members) :
          /\ m \in StaleEntries(employees', union_members')
          /\ union_members'[m] = union_members[m]
          /\ (UsesMember(m) \/ TargetsReAdded(m)) =>
                IsErr(last'.result, "AddUnionMemberFailed", "InsertError")]_vars

\* C32 (amended): a stale entry of the union index stays, with the employee
\* id it names, through every transaction; a ChangeUnionMember on a stored
\* employee that uses its member id, or on an employee re-added under the id
\* it names, fails with AddUnionMemberFailed and leaves the store as it was;
\* one that uses its member id on an employee that is not stored fails with
\* NotFound.
C32_StaleEntryStays ==
    [][\A m \in StaleEntries(employees, union_members) :
          /\ m \in StaleEntries(employees', union_members')
          /\ union_members'[m] = union_members[m]
          /\ ((UsesMember(m) /\ last'.tx.emp_id \in DOMAIN employees)
                \/ TargetsReAdded(m)) =>
                /\ IsErr(last'.result, "AddUnionMemberFailed", "InsertError")
                /\ employees' = employees
                /\ union_members' = union_members
          /\ (UsesMember(m) /\ last'.tx.emp_id \notin DOMAIN employees) =>
                IsErr(last'.result, "NotFound", "FetchError")]_vars

\* an employee re-added under the id of a deleted union member asked for
\* another member id and was refused, the stale entry still in the index
C32_Witness ==
    /\ last.tx.kind = "ChgMember"
    /\ last.tx.emp_id \in DOMAIN last.pre.employees
    /\ last.pre.employees[last.tx.emp_id].affiliation.tag = "Unaffiliated"
    /\ \E m \in StaleEntries(last.pre.employees, last.pre.union_members) :
          /\ last.pre.union_members[m] = last.tx.emp_id
          /\ m # last.tx.member_id
          /\ m \in StaleEntries(employees, union_members)
    /\ IsErr(last.result, "AddUnionMemberFailed", "InsertError")

\* the paychecks handed to PaymentMethod::pay for the employee, in call order
Disbursed(calls, emp_id) ==
    [i \in 1..Cardinality({j \in DOMAIN calls :
                              calls[j][1] = "pay" /\ calls[j][2] = emp_id}) |->
        calls[CHOOSE j \in DOMAIN calls :
                  /\ calls[j][1] = "pay"
                  /\ calls[j][2] = emp_id
                  /\ Cardinality({k \in 1..j : calls[k][1] = "pay"
                                               /\ calls[k][2] = emp_id}) = i][4]]

\* C33: PaydayTx keeps no memory of earlier runs: after a PaydayTx(d) that
\* succeeded, the same PaydayTx(d) run again succeeds, disburses to every due
\* employee the paycheck it disbursed before and records it once more, so
\* that the employee holds two paychecks for the one period.
C33_PaydayAgainPaysAgain ==
    (last.tx.kind = "Payday" /\ last.result.tag = "Ok") =>
        \A order \in Orders(DOMAIN employees) :
            /\ PaydayTx(Db({}), last.tx.pay_date, order).r = Ok(<<>>)
            /\ \A e \in DOMAIN employees :
                  /\ Due(e) =>
                        /\ PaychecksOf(PaydayTx(Db({}), last.tx.pay_date, order).w.paychecks, e)
                              = Append(paychecks[e], NewPaycheck(e))
                        /\ Disbursed(PaydayTx(Db({}), last.tx.pay_date, order).w.calls, e)
                              = <<NewPaycheck(e)>>
                        /\ Disbursed(last.calls, e) = <<NewPaycheck(e)>>
                  /\ ~Due(e) =>
                        /\ PaychecksOf(PaydayTx(Db({}), last.tx.pay_date, order).w.paychecks, e)
                              = PaychecksOf(paychecks, e)
                        /\ Disbursed(PaydayTx(Db({}), last.tx.pay_date, order).w.calls, e)
                              = <<>>

\* the second of two Paydays for one date: the employee holds the same
\* paycheck twice
C33_Witness ==
    /\ last.tx.kind = "Payday"
    /\ last.result.tag = "Ok"
    /\ \E e \in DOMAIN employees :
          /\ Due(e)
          /\ Recorded(e, 1)
          /\ Len(paychecks[e]) = 2
          /\ paychecks[e][1] = paychecks[e][2]
          /\ paychecks[e][1].net_pay > 0
          /\ Disbursed(last.calls, e) = <<paychecks[e][2]>>

\* the store the Payday executed last started from, as a port that cannot
\* record the paychecks of faults
PortBefore(faults) ==
    World(last.pre.employees, last.pre.union_members, last.pre.paychecks, faults)

\* C34: PaydayTx changes nothing but the paycheck lists: after a PaydayTx the
\* employee records, their timecards, sales receipts and service charges
\* with them, and the union index are what they were before it, and so they
\* are when the PaydayTx runs over a port that fails to record a paycheck.
C34_PaydayKeepsTheRecords ==
    last.tx.kind = "Payday" =>
        /\ employees = last.pre.employees
        /\ union_members = last.pre.union_members
        /\ \A faults \in SUBSET (DOMAIN last.pre.employees) :
              /\ PaydayTx(PortBefore(faults), last.tx.pay_date, last.order).w.employees
                    = last.pre.employees
              /\ PaydayTx(PortBefore(faults), last.tx.pay_date, last.order).w.union_members
                    = last.pre.union_members

\* an Hourly employee was paid for a timecard that is still stored, and the
\* same Payday over a port that cannot record the paycheck fails
C34_Witness ==
    /\ last.tx.kind = "Payday"
    /\ last.result.tag = "Ok"
    /\ \E e \in DOMAIN employees :
          /\ Due(e)
          /\ employees[e].classification.tag = "Hourly"
          /\ employees[e].classification.timecards # <<>>
          /\ Recorded(e, 1)
          /\ NewPaycheck(e).gross_pay > 0
          /\ IsErr(PaydayTx(PortBefore({e}), last.tx.pay_date, last.order).r,
                   "UpdateEmployeeFailed", "UpdateError")

\* C35: with a store that records every paycheck the outcome of PaydayTx
\* does not depend on the order in which fetch_all lists the employees:
\* over each order the PaydayTx executed last gives the same result and
\* leaves every employee with the same recorded paychecks.
C35_PaydayOrderFree ==
    (last.tx.kind = "Payday" /\ last.faults = {}) =>
        \A order \in Orders(DOMAIN last.pre.employees) :
            /\ PaydayTx(PortBefore({}), last.tx.pay_date, order).r = last.result
            /\ PaydayTx(PortBefore({}), last.tx.pay_date, order).w.paychecks
                  = paychecks
            /\ \A e \in DOMAIN last.pre.employees :
                  Disbursed(PaydayTx(PortBefore({}), last.tx.pay_date, order).w.calls, e)
                      = Disbursed(last.calls, e)

\* a Payday over two employees listed with the one who is not due first
C35_Witness ==
    /\ last.tx.kind = "Payday"
    /\ last.faults = {}
    /\ Len(last.order) = 2
    /\ ~Due(last.order[1])
    /\ Due(last.order[2])
    /\ Recorded(last.order[2], 1)
    /\ NewPaycheck(last.order[2]).net_pay > 0

\* the use-case errors the in-memory store never gives rise to
UnreachableErrors == {"UpdateEmployeeFailed", "RemoveUnionMemberFailed", "GetAllFailed"}

\* C36: against the in-memory store no transaction fails with
\* UpdateEmployeeFailed, RemoveUnionMemberFailed or GetAllFailed: every
\* update follows a fetch of the same id that succeeded, every
\* remove_union_member is for a member id the index holds, and fetch_all and
\* record_paycheck always succeed.
C36_NoStoreFailure ==
    /\ last.result.tag = "Err" => last.result.err \notin UnreachableErrors
    /\ \A i \in CallsNamed("update") :
          /\ last.calls[i][2] \in DOMAIN last.pre.employees
          /\ CallsFor("fetch", last.calls[i][2]) # {}
    /\ \A i \in CallsNamed("remove_union_member") :
          last.calls[i][2] \in DOMAIN last.pre.union_members
    /\ (last.tx.kind = "Payday" /\ CallsNamed("pay") # {}) =>
          /\ last.result.tag = "Ok"
          /\ Cardinality(CallsNamed("record_paycheck")) = Cardinality(CallsNamed("pay"))

\* a ChgNoMember that removed the index entry and updated the employee
C36_Witness ==
    /\ last.tx.kind = "ChgNoMember"
    /\ last.result.tag = "Ok"
    /\ CallsNamed("remove_union_member") # {}
    /\ CallsNamed("update") # {}
    /\ employees[last.tx.emp_id].affiliation.tag = "Unaffiliated"

\* the Biweekly pay dates whose pay period contains the date
BiweeklyPeriodsOf(date) ==
    {p \in date..(date + 27) :
        /\ is_pay_date(Biweekly, p)
        /\ contains(calculate_period(Biweekly, p), date)}

\* C37: consecutive Biweekly pay dates are 14 days apart, also across a year
\* boundary, and the Biweekly pay periods tile the calendar: every date lies
\* in the pay period of exactly one Biweekly pay date.
C37_BiweeklyTiles ==
    (last.tx.kind = "is_pay_date" /\ last.tx.schedule = Biweekly) =>
        /\ last.result =>
              /\ is_pay_date(Biweekly, last.tx.date + 14)
              /\ \A d \in (last.tx.date + 1)..(last.tx.date + 13) :
                    ~is_pay_date(Biweekly, d)
        /\ Cardinality(BiweeklyPeriodsOf(last.tx.date)) = 1

\* Fri 2026-12-25, of ISO week 52 of a year of 53 weeks, is a Biweekly pay
\* date; the next one is Fri 2027-01-15, of ISO week 2, 21 days later
C37_LongYearEnd ==
    /\ last.tx.kind = "is_pay_date"
    /\ last.tx.schedule = Biweekly
    /\ last.tx.date = 1089
    /\ last.result
    /\ ~is_pay_date(Biweekly, 1103)
    /\ is_pay_date(Biweekly, 1110)
    /\ BiweeklyPeriodsOf(1092) = {}

\* the pay dates of the schedule whose pay period contains the date; a
\* period ends on its pay date, so none is before the date, and none is more
\* than a month after it
PeriodsHolding(schedule, date) ==
    {p \in date..(date + 31) :
        /\ is_pay_date(schedule, p)
        /\ contains(calculate_period(schedule, p), date)}

\* the Weekly pay dates on which the timecard is paid
PaidOn(tc, hourly_rate) ==
    {p \in tc.date..(tc.date + 31) :
        /\ is_pay_date(Weekly, p)
        /\ calculate_pay(Hourly(hourly_rate, <<tc>>),
                         Paycheck_new(calculate_period(Weekly, p))) # 0}

\* C38: the Weekly and the Monthly pay periods tile the calendar: every date
\* lies in the pay period of exactly one pay date of the schedule, and each
\* timecard of an Hourly employee is paid on exactly one Weekly pay date.
C38_WeeklyAndMonthlyTile ==
    /\ (last.tx.kind = "is_pay_date" /\ last.tx.schedule \in {Weekly, Monthly}) =>
          Cardinality(PeriodsHolding(last.tx.schedule, last.tx.date)) = 1
    /\ (last.tx.kind = "calculate_pay" /\ last.tx.classification.tag = "Hourly") =>
          \A i \in DOMAIN last.tx.classification.timecards :
              /\ Cardinality(PaidOn(last.tx.classification.timecards[i],
                                    last.tx.classification.hourly_rate)) = 1
              /\ PaidOn(last.tx.classification.timecards[i],
                        last.tx.classification.hourly_rate)
                    = PeriodsHolding(Weekly, last.tx.classification.timecards[i].date)

\* timecards of Fri 2024-01-19 and Sat 2024-01-20 on the Weekly pay date
\* 2024-01-19: the first is paid, the second is left to 2024-01-26
C38_Witness ==
    /\ last.tx.kind = "calculate_pay"
    /\ last.tx.classification.tag = "Hourly"
    /\ Len(last.tx.classification.timecards) = 2
    /\ last.tx.classification.timecards[1].date = 18
    /\ last.tx.classification.timecards[2].date = 19
    /\ last.tx.pc.period = Range(12, 18)
    /\ last.result = calc_pay_for_timecard(last.tx.classification.timecards[1],
                                           last.tx.classification.hourly_rate)
    /\ PeriodsHolding(Weekly, 19) = {25}
    /\ PeriodsHolding(Monthly, 31) = {59}

\* the number of Fridays in the period
FridaysIn(period) ==
    Cardinality({d \in period.start..period.end : IsFriday(d)})

\* no service charge of the affiliation is dated in the period
NoChargeIn(affiliation, period) ==
    \A i \in DOMAIN affiliation.service_charges :
        ~contains(period, affiliation.service_charges[i].date)

\* C39: the pay period of a Weekly pay date contains exactly one Friday, that
\* of a Biweekly pay date exactly two and that of a Monthly pay date four or
\* five; a union member with no service charge in the period is deducted
\* once the dues for a Weekly period and twice the dues for a Biweekly one.
C39_FridaysInPeriod ==
    /\ (/\ last.tx.kind = "calculate_period"
        /\ is_pay_date(last.tx.schedule, last.tx.payday)) =>
          CASE last.tx.schedule = Weekly -> FridaysIn(last.result) = 1
            [] last.tx.schedule = Biweekly -> FridaysIn(last.result) = 2
            [] last.tx.schedule = Monthly -> FridaysIn(last.result) \in {4, 5}
    /\ (/\ last.tx.kind = "calculate_deductions"
        /\ last.tx.affiliation.tag = "Union"
        /\ NoChargeIn(last.tx.affiliation, last.tx.pc.period)) =>
          /\ last.tx.pc.period \in PeriodsOf(CalcPayDates)
          /\ \A p \in CalcPayDates :
                /\ (/\ is_pay_date(Weekly, p)
                    /\ last.tx.pc.period = calculate_period(Weekly, p)) =>
                      last.result = last.tx.affiliation.dues
                /\ (/\ is_pay_date(Biweekly, p)
                    /\ last.tx.pc.period = calculate_period(Biweekly, p)) =>
                      last.result = 2 * last.tx.affiliation.dues
                /\ (/\ is_pay_date(Monthly, p)
                    /\ last.tx.pc.period = calculate_period(Monthly, p)) =>
                      last.result \in {4 * last.tx.affiliation.dues,
                                       5 * last.tx.affiliation.dues}

\* a union member whose one service charge is dated after the Biweekly
\* period of 2024-01-26 is deducted twice the dues
C39_Witness ==
    /\ last.tx.kind = "calculate_deductions"
    /\ last.tx.affiliation.tag = "Union"
    /\ Len(last.tx.affiliation.service_charges) = 1
    /\ last.tx.affiliation.service_charges[1].date = 26
    /\ last.tx.pc.period = calculate_period(Biweekly, 25)
    /\ FridaysIn(last.tx.pc.period) = 2
    /\ last.result = 2 * last.tx.affiliation.dues
    /\ last.result > 0

\* run is over: it returned, or a panic of a transaction unwound through it
RunOver == run_result = "Ok" \/ last.result.tag = "Panic"

\* C40: for a finite source TransactionApplication::run terminates: every
\* turn of its loop takes one transaction off the source and executes it to
\* its end, a source that is exhausted makes run return Ok, and it does not
\* go on after that; so the run is over after finitely many turns.
C40_RunTerminates ==
    /\ [][/\ run_result = "none"
          /\ \/ /\ txs # <<>>
                /\ txs' = Tail(txs)
                /\ executed' = Append(executed, Head(txs))
                /\ last'.tx = Head(txs)
                /\ run_result' = "none"
             \/ /\ txs = <<>>
                /\ txs' = <<>>
                /\ executed' = executed
                /\ run_result' = "Ok"]_vars
    /\ (txs = <<>> /\ last.result.tag # "Panic") ~> (run_result = "Ok")
    /\ <>RunOver

\* a run of three transactions that returned, its Payday having paid an
\* employee
C40_Witness ==
    /\ focus = "driver"
    /\ run_result = "Ok"
    /\ txs = <<>>
    /\ Len(executed) >= 3
    /\ executed = script
    /\ last.tx.kind = "Payday"
    /\ \E e \in DOMAIN employees : Recorded(e, 1) /\ NewPaycheck(e).net_pay > 0

====
